---- MODULE Spec2Model ----
(***************************************************************************)
(* Service-ticket tracker of an HVAC repair shop (src/database.py,          *)
(* src/app.py): the request lifecycle, the deadline bookkeeping and the     *)
(* help/escalation workflow over one shared sqlite3 connection.             *)
(*                                                                          *)
(* db   is what the connection sees (committed rows plus the statements of  *)
(*      a transaction that was begun and never committed or rolled back);   *)
(* disk is what has been committed.  The Database methods are operators     *)
(* from (db, disk, arguments) to the record [db, disk, ret] they leave.     *)
(*                                                                          *)
(* Status names: "open" = 'открыта', "in_repair" = 'в процессе ремонта',    *)
(* "awaiting_parts" = 'ожидание комплектующих', "completed" = 'завершена'.  *)
(***************************************************************************)
EXTENDS Integers, Sequences, FiniteSets, TLC

VARIABLES now, utc_offset, db, disk, ret, okStatus, budget, indicator, thread, cursor,
          session

vars == <<now, utc_offset, db, disk, ret, okStatus, budget, indicator, thread,
          cursor, session>>

---------------------------------------------------------------------------
(* Bounds of the model *)

\* Database calls made in one behaviour of Spec / SpecDeadline / SpecApp /
\* SpecRisk, and clock ticks
MaxCalls == 4
MaxDeadlineCalls == 3
MaxAppCalls == 4
MaxRiskCalls == 3
MaxTicks == 1

\* Calls and midnights in one behaviour of SpecNumber
MaxNumberCalls == 4
MaxDays == 1

\* Script threads sharing the connection, and operations they start, in one
\* behaviour of SpecCreate
MaxThreads == 2
MaxCreateCalls == 3

\* Calls in one behaviour of SpecHelp
MaxHelpCalls == 4

\* Calls in one behaviour of SpecClaim
MaxClaimCalls == 4

\* Calls in one behaviour of SpecAssign
MaxAssignCalls == 4

\* Calls in one behaviour of SpecUpdate
MaxUpdateCalls == 3

\* Calls in one behaviour of SpecStatus
MaxStatusCalls == 4

\* Operations started in one behaviour of SpecSetStatus
MaxSetStatusCalls == 3

\* Calls in one behaviour of SpecFailure
MaxFailureCalls == 3

\* Calls in one behaviour of SpecList
MaxListCalls == 3

\* Calls in one behaviour of SpecCompleted
MaxCompletedCalls == 4

\* Calls in one behaviour of SpecUsers
MaxUserCalls == 4

\* Calls of Database methods in one behaviour of SpecNav
MaxNavCalls == 2

\* Calls in one behaviour of SpecStats, and the period of get_statistics
MaxStatsCalls == 3
period_days == 30

---------------------------------------------------------------------------
(* Values *)

\* SQL NULL / Python None; a stored value v of a nullable column is <<v>>.
NULL == <<>>
Some(v) == <<v>>

DaySeconds == 24 * 3600
TickSeconds == 12 * 3600
default_deadline_days == 3

\* Text of a deadline column: a well-formed "%Y-%m-%d %H:%M:%S" timestamp,
\* the empty string, a string that is no timestamp, or NULL.
Ts(t) == [kind |-> "ts", t |-> t]
EmptyStr == [kind |-> "empty", t |-> 0]
BadStr == [kind |-> "bad", t |-> 0]
NullStr == [kind |-> "null", t |-> 0]

\* created_date TIMESTAMP DEFAULT CURRENT_TIMESTAMP: sqlite stamps UTC; t is
\* the local time of the same instant.
CURRENT_TIMESTAMP(t) == t - utc_offset

\* Python truthiness of a str-or-None value.
Truthy(s) == s.kind \in {"ts", "bad"}

Statuses == {"open", "in_repair", "awaiting_parts", "completed"}
Roles == {"admin", "specialist", "quality_manager"}

\* add_default_data: the three seeded users, ids 1, 2, 3.
\* _sha256: the stored form of a password; not the password itself.
_sha256(password) == <<"sha256", password>>

SeedUsers ==
  << [username |-> "admin", password |-> _sha256("admin123"),
      role |-> "admin", is_active |-> 1],
     [username |-> "ivanov", password |-> _sha256("spec123"),
      role |-> "specialist", is_active |-> 1],
     [username |-> "qmanager", password |-> _sha256("qm123"),
      role |-> "quality_manager", is_active |-> 1] >>

EmptyTables ==
  [users |-> SeedUsers, requests |-> <<>>, history |-> <<>>,
   help_requests |-> <<>>, comments |-> <<>>]

Res(d, k, ok, id) == [db |-> d, disk |-> k, ret |-> [ok |-> ok, id |-> id]]

UserExists(d, uid) == uid \in DOMAIN d.users
RequestExists(d, rid) == rid \in DOMAIN d.requests

---------------------------------------------------------------------------
(* Database methods *)

generate_request_number_total(d, t) ==
  [date |-> t \div DaySeconds, seq |-> Len(d.requests) + 1]

\* generate_request_number: prefix + date + (count of same-day numbers + 1).
generate_request_number(d, t) ==
  LET day == t \div DaySeconds
      cnt == Cardinality({i \in DOMAIN d.requests : d.requests[i].request_number.date = day})
  IN [date |-> day, seq |-> cnt + 1]

\* float(request_data.get("estimated_cost") or 0)
CostNone == [kind |-> "none", v |-> 0]
CostNum(v) == [kind |-> "num", v |-> v]
CostText == [kind |-> "text", v |-> 0]

\* a creation that stamps no deadline
add_request_nodeadline(d, k, cost, t) ==
  IF cost.kind = "text" THEN Res(d, k, FALSE, 0)
  ELSE LET id == Len(d.requests) + 1
           d1 == [d EXCEPT !.requests = Append(@,
                   [request_number |-> generate_request_number(d, t),
                    created_date |-> CURRENT_TIMESTAMP(t), status |-> "open",
                    assigned_to |-> NULL, assist_to |-> NULL,
                    estimated_cost |-> cost.v,
                    customer_name |-> NULL, customer_phone |-> NULL,
                    deadline |-> NullStr,
                    deadline_extended_to |-> NullStr,
                    extension_reason |-> NULL, client_approval |-> NULL,
                    client_approval_at |-> NULL, extended_by |-> NULL,
                    completed_date |-> NULL])]
           d2 == [d1 EXCEPT !.history = Append(@,
                   [request_id |-> id, old_status |-> NULL,
                    new_status |-> "open", changed_by |-> NULL])]
       IN Res(d2, d2, TRUE, id)

add_request_nohistory(d, k, cost, t) ==
  IF cost.kind = "text" THEN Res(d, k, FALSE, 0)
  ELSE LET id == Len(d.requests) + 1
           d2 == [d EXCEPT !.requests = Append(@,
                   [request_number |-> generate_request_number(d, t),
                    created_date |-> CURRENT_TIMESTAMP(t), status |-> "open",
                    assigned_to |-> NULL, assist_to |-> NULL,
                    estimated_cost |-> cost.v,
                    customer_name |-> NULL, customer_phone |-> NULL,
                    deadline |-> Ts(t + default_deadline_days * DaySeconds),
                    deadline_extended_to |-> NullStr,
                    extension_reason |-> NULL, client_approval |-> NULL,
                    client_approval_at |-> NULL, extended_by |-> NULL,
                    completed_date |-> NULL])]
       IN Res(d2, d2, TRUE, id)

add_request(d, k, cost, t) ==
  IF cost.kind = "text"
  THEN \* float() raises before the INSERT is executed
       Res(d, k, FALSE, 0)
  ELSE LET number == generate_request_number(d, t)
           id == Len(d.requests) + 1
           row == [request_number |-> number,
                   created_date |-> CURRENT_TIMESTAMP(t), status |-> "open",
                   assigned_to |-> NULL, assist_to |-> NULL,
                   estimated_cost |-> cost.v,
                   customer_name |-> NULL, customer_phone |-> NULL,
                   deadline |-> Ts(t + default_deadline_days * DaySeconds),
                   deadline_extended_to |-> NullStr,
                   extension_reason |-> NULL, client_approval |-> NULL,
                   client_approval_at |-> NULL, extended_by |-> NULL,
                   completed_date |-> NULL]
           first == [request_id |-> id, old_status |-> NULL,
                     new_status |-> "open", changed_by |-> NULL]
       IN IF \E i \in DOMAIN d.requests : d.requests[i].request_number = number
          THEN \* UNIQUE(request_number): the INSERT is rejected, no rollback
               Res(d, k, FALSE, 0)
          ELSE LET d2 == [d EXCEPT !.requests = Append(@, row),
                                   !.history = Append(@, first)]
               IN Res(d2, d2, TRUE, id)

\* The statements of add_request, for threads that interleave.
\* INSERT INTO requests: request_number is UNIQUE.
NewRequest(number, cost, t) ==
  [request_number |-> number,
   created_date |-> CURRENT_TIMESTAMP(t), status |-> "open",
   assigned_to |-> NULL, assist_to |-> NULL,
   estimated_cost |-> cost.v,
   customer_name |-> NULL, customer_phone |-> NULL,
   deadline |-> Ts(t + default_deadline_days * DaySeconds),
   deadline_extended_to |-> NullStr,
   extension_reason |-> NULL, client_approval |-> NULL,
   client_approval_at |-> NULL, extended_by |-> NULL,
   completed_date |-> NULL]

insert_request_nounique(d, number, cost, t) ==
  [ok |-> TRUE, db |-> [d EXCEPT !.requests = Append(@, NewRequest(number, cost, t))]]

insert_request(d, number, cost, t) ==
  IF \E i \in DOMAIN d.requests : d.requests[i].request_number = number
  THEN [ok |-> FALSE, db |-> d]
  ELSE [ok |-> TRUE, db |-> [d EXCEPT !.requests = Append(@, NewRequest(number, cost, t))]]

\* INSERT INTO status_history (request_id, NULL, 'открыта', NULL):
\* request_id REFERENCES requests(id).
insert_initial_history(d, request_id) ==
  IF ~RequestExists(d, request_id)
  THEN [ok |-> FALSE, db |-> d]
  ELSE [ok |-> TRUE,
        db |-> [d EXCEPT !.history = Append(@,
                  [request_id |-> request_id, old_status |-> NULL,
                   new_status |-> "open", changed_by |-> NULL])]]

\* an update that also writes the status key
update_request_anykey(d, k, request_id, upd) ==
  IF ~RequestExists(d, request_id)
  THEN Res(d, d, FALSE, 0)
  ELSE LET d2 == [d EXCEPT
                   !.requests[request_id].estimated_cost =
                       IF upd.has_cost THEN upd.cost ELSE @,
                   !.requests[request_id].deadline =
                       IF upd.has_deadline THEN upd.deadline ELSE @,
                   !.requests[request_id].status =
                       IF upd.has_status THEN upd.status ELSE @]
       IN Res(d2, d2, TRUE, 0)

\* update_request: only the whitelisted keys; of those the model carries
\* estimated_cost and deadline.  upd is a record whose has_* flags say
\* which keys update_data holds.
update_request(d, k, request_id, upd) ==
  IF ~(upd.has_cost \/ upd.has_deadline)
  THEN Res(d, k, TRUE, 0)
  ELSE IF ~RequestExists(d, request_id)
       THEN \* UPDATE of no row, then commit(); rowcount = 0
            Res(d, d, FALSE, 0)
       ELSE LET d2 == [d EXCEPT
                        !.requests[request_id].estimated_cost =
                            IF upd.has_cost THEN upd.cost ELSE @,
                        !.requests[request_id].deadline =
                            IF upd.has_deadline THEN upd.deadline ELSE @]
            IN Res(d2, d2, TRUE, 0)

update_request_status_keepdate(d, k, request_id, new_status, changed_by, t) ==
  IF ~RequestExists(d, request_id) THEN Res(d, k, FALSE, 0)
  ELSE LET old_status == d.requests[request_id].status
           d1 == [d EXCEPT !.requests[request_id].status = new_status,
                           !.requests[request_id].completed_date =
                               IF new_status = "completed" THEN Some(t) ELSE @]
           by == IF changed_by # 0 THEN Some(changed_by) ELSE NULL
           d2 == [d1 EXCEPT !.history = Append(@,
                    [request_id |-> request_id, old_status |-> Some(old_status),
                     new_status |-> new_status, changed_by |-> by])]
       IN IF changed_by # 0 /\ ~UserExists(d, changed_by)
          THEN Res(d1, k, FALSE, 0)
          ELSE Res(d2, d2, TRUE, 0)

update_request_status_twice(d, k, request_id, new_status, changed_by, t) ==
  IF ~RequestExists(d, request_id) THEN Res(d, k, FALSE, 0)
  ELSE LET old_status == d.requests[request_id].status
           completed_date == IF new_status = "completed" THEN Some(t) ELSE NULL
           d1 == [d EXCEPT !.requests[request_id].status = new_status,
                           !.requests[request_id].completed_date = completed_date]
           by == IF changed_by # 0 THEN Some(changed_by) ELSE NULL
           h == [request_id |-> request_id, old_status |-> Some(old_status),
                 new_status |-> new_status, changed_by |-> by]
           d2 == [d1 EXCEPT !.history = Append(Append(@, h), h)]
       IN IF changed_by # 0 /\ ~UserExists(d, changed_by)
          THEN Res(d1, k, FALSE, 0)
          ELSE Res(d2, d2, TRUE, 0)

\* a status update that stores its own name for the status completed
update_request_status_closed(d, k, request_id, new_status, changed_by, t) ==
  update_request_status_keepdate(d, k, request_id,
      IF new_status = "completed" THEN "closed" ELSE new_status, changed_by, t)

\* a status update that does not look the request up first
update_request_status_nolookup(d, k, request_id, new_status, changed_by, t) ==
  LET d2 == [d EXCEPT !.history = Append(@,
               [request_id |-> request_id, old_status |-> NULL,
                new_status |-> new_status, changed_by |-> Some(changed_by)])]
  IN IF RequestExists(d, request_id)
     THEN update_request_status_twice(d, k, request_id, new_status, changed_by, t)
     ELSE Res(d2, d2, TRUE, 0)

\* a status update that refuses to leave the status completed
update_request_status_final(d, k, request_id, new_status, changed_by, t) ==
  IF RequestExists(d, request_id) /\ d.requests[request_id].status = "completed"
  THEN Res(d, k, FALSE, 0)
  ELSE update_request_status_keepdate(d, k, request_id, new_status, changed_by, t)

update_request_status(d, k, request_id, new_status, changed_by, t) ==
  IF ~RequestExists(d, request_id)
  THEN \* only the SELECT ran
       Res(d, k, FALSE, 0)
  ELSE LET old_status == d.requests[request_id].status
           completed_date == IF new_status = "completed" THEN Some(t) ELSE NULL
           \* UPDATE requests SET status=?, completed_date=?
           d1 == [d EXCEPT !.requests[request_id].status = new_status,
                           !.requests[request_id].completed_date = completed_date]
           \* int(changed_by) if changed_by else None
           by == IF changed_by # 0 THEN Some(changed_by) ELSE NULL
           d2 == [d1 EXCEPT !.history = Append(@,
                    [request_id |-> request_id, old_status |-> Some(old_status),
                     new_status |-> new_status, changed_by |-> by])]
       IN IF changed_by # 0 /\ ~UserExists(d, changed_by)
          THEN \* FOREIGN KEY (changed_by): the INSERT is rejected; the except
               \* branch returns False without rollback(), so the UPDATE stays
               \* in the connection's open transaction
               Res(d1, k, FALSE, 0)
          ELSE \* commit()
               Res(d2, d2, TRUE, 0)

assign_request_ifunassigned(d, k, request_id, specialist_id) ==
  IF ~UserExists(d, specialist_id)
  THEN IF RequestExists(d, request_id) THEN Res(d, k, FALSE, 0) ELSE Res(d, d, FALSE, 0)
  ELSE IF ~RequestExists(d, request_id) \/ d.requests[request_id].assigned_to # NULL
       THEN Res(d, d, FALSE, 0)
       ELSE LET d2 == [d EXCEPT !.requests[request_id].assigned_to = Some(specialist_id)]
            IN Res(d2, d2, TRUE, 0)

\* assign_request: UPDATE requests SET assigned_to=?; commit(); rowcount > 0
assign_request(d, k, request_id, specialist_id) ==
  IF ~UserExists(d, specialist_id)
  THEN \* FOREIGN KEY (assigned_to) when a row matches; else 0 rows, then commit()
       IF RequestExists(d, request_id) THEN Res(d, k, FALSE, 0) ELSE Res(d, d, FALSE, 0)
  ELSE IF ~RequestExists(d, request_id)
       THEN Res(d, d, FALSE, 0)
       ELSE LET d2 == [d EXCEPT !.requests[request_id].assigned_to = Some(specialist_id)]
            IN Res(d2, d2, TRUE, 0)

set_assistant_master(d, k, request_id, assistant_id) ==
  IF ~UserExists(d, assistant_id)
  THEN IF RequestExists(d, request_id) THEN Res(d, k, FALSE, 0) ELSE Res(d, d, FALSE, 0)
  ELSE IF ~RequestExists(d, request_id)
       THEN Res(d, d, FALSE, 0)
       ELSE LET d2 == [d EXCEPT !.requests[request_id].assist_to = Some(assistant_id)]
            IN Res(d2, d2, TRUE, 0)

\* a reassignment that refuses a completed request
reassign_master_open(d, k, request_id, new_master_id) ==
  IF RequestExists(d, request_id) /\ d.requests[request_id].status = "completed"
  THEN Res(d, d, FALSE, 0)
  ELSE assign_request(d, k, request_id, new_master_id)

reassign_master(d, k, request_id, new_master_id) ==
  assign_request(d, k, request_id, new_master_id)

\* an extension that also moves the planned deadline
extend_deadline_planned(d, k, request_id, new_deadline, reason, approval_text, extended_by, t) ==
  IF ~UserExists(d, extended_by) \/ ~RequestExists(d, request_id)
  THEN Res(d, k, FALSE, 0)
  ELSE LET d2 == [d EXCEPT
                    !.requests[request_id].deadline = new_deadline,
                    !.requests[request_id].deadline_extended_to = new_deadline,
                    !.requests[request_id].extension_reason = Some(reason),
                    !.requests[request_id].client_approval = Some(approval_text),
                    !.requests[request_id].client_approval_at = Some(t),
                    !.requests[request_id].extended_by = Some(extended_by)]
       IN Res(d2, d2, TRUE, 0)

\* extend_deadline: one UPDATE of the five extension columns; commit()
extend_deadline(d, k, request_id, new_deadline, reason, approval_text, extended_by, t) ==
  IF ~UserExists(d, extended_by)
  THEN IF RequestExists(d, request_id) THEN Res(d, k, FALSE, 0) ELSE Res(d, d, FALSE, 0)
  ELSE IF ~RequestExists(d, request_id)
       THEN Res(d, d, FALSE, 0)
       ELSE LET d2 == [d EXCEPT
                         !.requests[request_id].deadline_extended_to = new_deadline,
                         !.requests[request_id].extension_reason = Some(reason),
                         !.requests[request_id].client_approval = Some(approval_text),
                         !.requests[request_id].client_approval_at = Some(t),
                         !.requests[request_id].extended_by = Some(extended_by)]
            IN Res(d2, d2, TRUE, 0)

\* create_help_request: INSERT ... 'open'; commit()
create_help_request(d, k, request_id, requested_by, message, t) ==
  IF ~RequestExists(d, request_id) \/ ~UserExists(d, requested_by)
  THEN Res(d, k, FALSE, 0)
  ELSE LET id == Len(d.help_requests) + 1
           d2 == [d EXCEPT !.help_requests = Append(@,
                    [request_id |-> request_id, requested_by |-> requested_by,
                     message |-> message, status |-> "open", created_at |-> t,
                     resolved_by |-> NULL, resolved_at |-> NULL,
                     resolution_note |-> NULL])]
       IN Res(d2, d2, TRUE, id)

\* list_open_help_requests: ids of the rows of help_requests JOIN requests
\* JOIN users (requested_by) WHERE hr.status='open'
list_open_help_requests(d) ==
  {h \in DOMAIN d.help_requests :
      /\ d.help_requests[h].status = "open"
      /\ RequestExists(d, d.help_requests[h].request_id)
      /\ UserExists(d, d.help_requests[h].requested_by)}

resolve_help_request_byrequest(d, k, help_id, resolved_by, resolution_note, t) ==
  IF ~UserExists(d, resolved_by) \/ help_id \notin DOMAIN d.help_requests
  THEN Res(d, k, FALSE, 0)
  ELSE LET d2 == [d EXCEPT !.help_requests =
                    [h \in DOMAIN @ |->
                       IF @[h].request_id = @[help_id].request_id
                       THEN [@[h] EXCEPT !.status = "resolved",
                                         !.resolved_by = Some(resolved_by),
                                         !.resolved_at = Some(t),
                                         !.resolution_note = Some(resolution_note)]
                       ELSE @[h]]]
       IN Res(d2, d2, TRUE, 0)

\* a resolve that turns a resolved help request back to open
resolve_help_request_toggle(d, k, help_id, resolved_by, resolution_note, t) ==
  IF ~UserExists(d, resolved_by) \/ help_id \notin DOMAIN d.help_requests
  THEN Res(d, k, FALSE, 0)
  ELSE LET back == d.help_requests[help_id].status = "resolved"
           d2 == [d EXCEPT
                    !.help_requests[help_id].status =
                        IF back THEN "open" ELSE "resolved",
                    !.help_requests[help_id].resolved_by =
                        IF back THEN NULL ELSE Some(resolved_by),
                    !.help_requests[help_id].resolved_at =
                        IF back THEN NULL ELSE Some(t),
                    !.help_requests[help_id].resolution_note =
                        IF back THEN NULL ELSE Some(resolution_note)]
       IN Res(d2, d2, TRUE, 0)

\* resolve_help_request: UPDATE ... WHERE id=? (no check of the current status)
resolve_help_request(d, k, help_id, resolved_by, resolution_note, t) ==
  IF ~UserExists(d, resolved_by)
  THEN IF help_id \in DOMAIN d.help_requests THEN Res(d, k, FALSE, 0) ELSE Res(d, d, FALSE, 0)
  ELSE IF help_id \notin DOMAIN d.help_requests
       THEN Res(d, d, FALSE, 0)
       ELSE LET d2 == [d EXCEPT
                         !.help_requests[help_id].status = "resolved",
                         !.help_requests[help_id].resolved_by = Some(resolved_by),
                         !.help_requests[help_id].resolved_at = Some(t),
                         !.help_requests[help_id].resolution_note = Some(resolution_note)]
            IN Res(d2, d2, TRUE, 0)

\* a comment that takes the place of the newest stored comment
add_comment_replace(d, k, request_id, user_id, comment, t) ==
  IF ~RequestExists(d, request_id) \/ ~UserExists(d, user_id)
  THEN Res(d, k, FALSE, 0)
  ELSE LET row == [request_id |-> request_id, user_id |-> user_id,
                   comment |-> comment, created_at |-> t]
           d2 == [d EXCEPT !.comments =
                    IF @ = <<>> THEN <<row>> ELSE [@ EXCEPT ![Len(@)] = row]]
       IN Res(d2, d2, TRUE, Len(d2.comments))

\* add_comment: INSERT INTO request_comments; commit()
add_comment(d, k, request_id, user_id, comment, t) ==
  IF ~RequestExists(d, request_id) \/ ~UserExists(d, user_id)
  THEN Res(d, k, FALSE, 0)
  ELSE LET id == Len(d.comments) + 1
           d2 == [d EXCEPT !.comments = Append(@,
                    [request_id |-> request_id, user_id |-> user_id,
                     comment |-> comment, created_at |-> t])]
       IN Res(d2, d2, TRUE, id)

\* an insert that takes the place of the stored user of the same name
add_user_replace(d, k, username, password, role) ==
  LET row == [username |-> username, password |-> _sha256(password),
              role |-> role, is_active |-> 1]
      same == {u \in DOMAIN d.users : d.users[u].username = username}
      d2 == IF same = {}
            THEN [d EXCEPT !.users = Append(@, row)]
            ELSE [d EXCEPT !.users = [u \in DOMAIN @ |->
                                        IF u \in same THEN row ELSE @[u]]]
  IN Res(d2, d2, TRUE, Len(d2.users))

\* add_user: INSERT INTO users (username UNIQUE, password = _sha256(...),
\* role, is_active = 1); commit()
add_user(d, k, username, password, role) ==
  IF \E u \in DOMAIN d.users : d.users[u].username = username
  THEN Res(d, k, FALSE, 0)
  ELSE LET d2 == [d EXCEPT !.users = Append(@,
                    [username |-> username, password |-> _sha256(password),
                     role |-> role, is_active |-> 1])]
       IN Res(d2, d2, TRUE, Len(d2.users))

\* effective_deadline (app.py): r.get("deadline_extended_to") or r.get("deadline") or ""
effective_deadline(r) ==
  IF Truthy(r.deadline_extended_to) THEN r.deadline_extended_to
  ELSE IF Truthy(r.deadline) THEN r.deadline
  ELSE EmptyStr

deadline_state_strict(r, t) ==
  IF r.status = "completed" THEN ""
  ELSE LET dl == effective_deadline(r)
       IN IF ~Truthy(dl) THEN ""
          ELSE IF dl.kind = "bad" THEN ""
          ELSE IF dl.t - t < 0 THEN "overdue"
          ELSE IF dl.t - t < DaySeconds THEN "at_risk"
          ELSE "on_track"

deadline_state_noexcept(r, t) ==
  IF r.status = "completed" THEN ""
  ELSE LET dl == effective_deadline(r)
       IN IF ~Truthy(dl) THEN ""
          ELSE IF dl.kind = "bad" THEN "raised"
          ELSE IF dl.t - t < 0 THEN "overdue"
          ELSE IF dl.t - t <= DaySeconds THEN "at_risk"
          ELSE "on_track"

\* deadline_state (app.py): "overdue" = 'Просрочено', "at_risk" = 'Риск срыва',
\* "on_track" = 'В сроке'
deadline_state(r, t) ==
  IF r.status = "completed" THEN ""
  ELSE LET dl == effective_deadline(r)
       IN IF ~Truthy(dl) THEN ""
          ELSE IF dl.kind = "bad"
               THEN \* datetime.fromisoformat raises; except: return ""
                    ""
          ELSE IF dl.t - t < 0 THEN "overdue"
          ELSE IF dl.t - t <= DaySeconds THEN "at_risk"
          ELSE "on_track"

---------------------------------------------------------------------------
(* State *)

\* now        the clock of the application, datetime.now(): local time, in
\*            seconds
\* utc_offset local time minus UTC on the host, in seconds
\* db, disk   the tables as the connection sees them / as committed
\* ret        the method called last and whether it returned success
\* okStatus   per request, how many update_request_status calls returned True
\* budget     how many more calls the behaviour makes
\* indicator  the risk indicator rendered last (deadline_state)
\* thread     per script thread, where it is in the method it runs and the
\*            method's local variables
\* cursor     the one sqlite3 cursor all threads share: the row its last
\*            SELECT left to fetch, and lastrowid

Threads == 1..MaxThreads
Idle == [pc |-> "idle", number |-> [date |-> 0, seq |-> 0], rid |-> 0, user |-> 0,
         new_status |-> "open", old_status |-> "open", result |-> "none"]

\* st.session_state of a browser session: user (0 for None), page,
\* view_request_id and edit_request_id (0 when not set); shown is what the
\* last script run rendered ("rerun" when it ended in st.rerun()).
NoSession == [user |-> 0, page |-> "login", view_request_id |-> 0,
              edit_request_id |-> 0, shown |-> "none"]

NotRendered == [rendered |-> FALSE, status |-> "open", deadline |-> NullStr,
                deadline_extended_to |-> NullStr, at |-> 0, out |-> ""]

\* Local time minus UTC of the hosts considered: UTC-5, UTC, UTC+3.
UtcOffsets == {0 - 5 * 3600, 0, 3 * 3600}

InitAt(n, offsets) ==
  /\ now = 0
  /\ utc_offset \in offsets
  /\ db = EmptyTables
  /\ disk = EmptyTables
  /\ ret = [op |-> "init", ok |-> TRUE]
  /\ okStatus = <<>>
  /\ budget = n
  /\ indicator = NotRendered
  /\ thread = [p \in Threads |-> Idle]
  /\ cursor = [row |-> NULL, lastrowid |-> 0]
  /\ session = NoSession

\* The specifications whose claims do not read created_date run on a host
\* in UTC.
InitWith(n) == InitAt(n, {0})

Init == InitWith(MaxCalls)

\* What one call of a Database method leaves behind.
Effect(op, res) ==
  /\ budget > 0
  /\ budget' = budget - 1
  /\ db' = res.db
  /\ disk' = res.disk
  /\ ret' = [op |-> op, ok |-> res.ret.ok]

\* A call that runs from its first statement to its return with no other
\* thread in between.
Call(op, res) ==
  /\ Effect(op, res)
  /\ UNCHANGED <<thread, cursor>>

\* Ids a caller may pass: the stored ones and one that is not stored.
RequestIds == 1..(Len(db.requests) + 1)
HelpIds == 1..(Len(db.help_requests) + 1)
NoSuchUser == Len(db.users) + 1

---------------------------------------------------------------------------
(* The Database methods called directly (as src/test_database.py does) *)

AddRequest(cost) ==
  /\ LET res == add_request(db, disk, cost, now)
     IN /\ Call("add_request", res)
        /\ okStatus' = IF res.ret.ok THEN Append(okStatus, 0) ELSE okStatus
  /\ UNCHANGED <<now, utc_offset, session, indicator>>

UpdateRequestStatus(request_id, new_status, changed_by) ==
  /\ LET res == update_request_status(db, disk, request_id, new_status, changed_by, now)
     IN /\ Call("update_request_status", res)
        /\ okStatus' = IF res.ret.ok
                       THEN [okStatus EXCEPT ![request_id] = @ + 1]
                       ELSE okStatus
  /\ UNCHANGED <<now, utc_offset, session, indicator>>

UpdateRequest(request_id, upd) ==
  /\ Call("update_request", update_request(db, disk, request_id, upd))
  /\ UNCHANGED <<now, utc_offset, session, okStatus, indicator>>

AssignRequest(request_id, specialist_id) ==
  /\ Call("assign_request", assign_request(db, disk, request_id, specialist_id))
  /\ UNCHANGED <<now, utc_offset, session, okStatus, indicator>>

SetAssistantMaster(request_id, assistant_id) ==
  /\ Call("set_assistant_master",
          set_assistant_master(db, disk, request_id, assistant_id))
  /\ UNCHANGED <<now, utc_offset, session, okStatus, indicator>>

ReassignMaster(request_id, new_master_id) ==
  /\ Call("reassign_master", reassign_master(db, disk, request_id, new_master_id))
  /\ UNCHANGED <<now, utc_offset, session, okStatus, indicator>>

ExtendDeadline(request_id, new_deadline, reason, approval_text, extended_by) ==
  /\ Call("extend_deadline",
          extend_deadline(db, disk, request_id, new_deadline, reason,
                          approval_text, extended_by, now))
  /\ UNCHANGED <<now, utc_offset, session, okStatus, indicator>>

CreateHelpRequest(request_id, requested_by, message) ==
  /\ Call("create_help_request",
          create_help_request(db, disk, request_id, requested_by, message, now))
  /\ UNCHANGED <<now, utc_offset, session, okStatus, indicator>>

ResolveHelpRequest(help_id, resolved_by, note) ==
  /\ Call("resolve_help_request",
          resolve_help_request(db, disk, help_id, resolved_by, note, now))
  /\ UNCHANGED <<now, utc_offset, session, okStatus, indicator>>

AddComment(request_id, user_id, comment) ==
  /\ Call("add_comment", add_comment(db, disk, request_id, user_id, comment, now))
  /\ UNCHANGED <<now, utc_offset, session, okStatus, indicator>>

\* close() and a new Database() on the same file: sqlite rolls back the
\* transaction left open; create_tables / add_default_data change nothing.
Reopen ==
  /\ db # disk
  /\ db' = disk
  /\ ret' = [op |-> "init", ok |-> TRUE]
  /\ UNCHANGED <<now, utc_offset, session, disk, okStatus, budget, indicator, thread, cursor>>

---------------------------------------------------------------------------
(* Spec: the request lifecycle under direct calls of the Database methods *)

CostInputs == {CostNum(1000), CostText}
StatusActors == {2, NoSuchUser}
NoUpdate == [has_cost |-> FALSE, has_deadline |-> FALSE, cost |-> 0, deadline |-> EmptyStr]
DeadlineUpdate(dl) == [has_cost |-> FALSE, has_deadline |-> TRUE, cost |-> 0, deadline |-> dl]

Next ==
  \/ \E cost \in CostInputs : AddRequest(cost)
  \/ \E r \in RequestIds, s \in Statuses, by \in StatusActors :
        UpdateRequestStatus(r, s, by)
  \/ \E r \in RequestIds, upd \in {NoUpdate, DeadlineUpdate(Ts(DaySeconds))} :
        UpdateRequest(r, upd)
  \/ \E r \in RequestIds, u \in {2, NoSuchUser} : AssignRequest(r, u)
  \/ \E r \in RequestIds, u \in {2, NoSuchUser} : SetAssistantMaster(r, u)
  \/ \E r \in RequestIds, u \in {2, NoSuchUser} : ReassignMaster(r, u)
  \/ \E r \in RequestIds, by \in {3, NoSuchUser} :
        ExtendDeadline(r, Ts(2 * DaySeconds), "reason", "approval", by)
  \/ \E r \in RequestIds : CreateHelpRequest(r, 2, "help")
  \/ \E h \in HelpIds : ResolveHelpRequest(h, 3, "note")
  \/ \E r \in RequestIds : AddComment(r, 2, "text")
  \/ Reopen

Spec == Init /\ [][Next]_vars

---------------------------------------------------------------------------
(* SpecDeadline: deadline extension under direct calls, with a clock *)

\* The clock (datetime.now(), CURRENT_TIMESTAMP) advances.
Tick ==
  /\ now < MaxTicks * TickSeconds
  /\ now' = now + TickSeconds
  /\ UNCHANGED <<utc_offset, session, db, disk, ret, okStatus, budget, indicator, thread,
                 cursor>>

InitDeadline == InitWith(MaxDeadlineCalls)

DeadlineInputs == {Ts(DaySeconds), Ts(5 * DaySeconds), EmptyStr}
ExtendInputs ==
  [r : RequestIds, d : DeadlineInputs, reason : {"", "reason"},
   approval : {"", "approval"}, by : {3, NoSuchUser}]

NextDeadline ==
  \/ AddRequest(CostNone)
  \/ \E in \in ExtendInputs : ExtendDeadline(in.r, in.d, in.reason, in.approval, in.by)
  \/ \E r \in RequestIds, dl \in {EmptyStr, Ts(2 * DaySeconds)} :
        UpdateRequest(r, DeadlineUpdate(dl))
  \/ Tick

SpecDeadline == InitDeadline /\ [][NextDeadline]_vars

---------------------------------------------------------------------------
(* SpecApp: the page handlers of src/app.py, run by a logged-in user u *)

\* a role helper that takes every logged-in user for an admin
role_admin(u) == "admin"

role(u) == db.users[u].role
is_admin(u) == role(u) = "admin"
is_specialist(u) == role(u) = "specialist"
is_quality_manager(u) == role(u) = "quality_manager"
can_qm_actions_anyone(u) == u \in DOMAIN db.users
can_qm_actions(u) == is_quality_manager(u) \/ is_admin(u)

\* get_all_users("specialist")
Specialists == {u \in DOMAIN db.users : db.users[u].role = "specialist"}

\* page_view_request: can_manage
can_manage(u, r) ==
  is_admin(u) \/ (is_specialist(u) /\ r.assigned_to # NULL /\ r.assigned_to = Some(u))

\* page_new_request: the submitted form
PageNewRequest(u, cost) ==
  /\ is_admin(u) \/ is_specialist(u)
  /\ LET res == add_request(db, disk, CostNum(cost), now)
     IN /\ Call("add_request", res)
        /\ okStatus' = IF res.ret.ok THEN Append(okStatus, 0) ELSE okStatus
  /\ UNCHANGED <<now, utc_offset, indicator>>

\* page_view_request: the button "take the request"
PageViewTake(u, rid) ==
  /\ RequestExists(db, rid)
  /\ is_specialist(u)
  /\ db.requests[rid].assigned_to = NULL
  /\ db.requests[rid].status # "completed"
  /\ Call("assign_request", assign_request(db, disk, rid, u))
  /\ UNCHANGED <<now, utc_offset, okStatus, indicator>>

\* page_view_request: the button "save status"
PageViewSaveStatus(u, rid, sel) ==
  /\ RequestExists(db, rid)
  /\ can_manage(u, db.requests[rid])
  /\ sel # db.requests[rid].status
  /\ LET res == update_request_status(db, disk, rid, sel, u, now)
     IN /\ Call("update_request_status", res)
        /\ okStatus' = IF res.ret.ok THEN [okStatus EXCEPT ![rid] = @ + 1] ELSE okStatus
  /\ UNCHANGED <<now, utc_offset, indicator>>

\* page_view_request: the admin's button "assign"
PageViewAssign(u, rid, sid) ==
  /\ RequestExists(db, rid)
  /\ can_manage(u, db.requests[rid])
  /\ is_admin(u)
  /\ sid \in Specialists
  /\ Call("assign_request", assign_request(db, disk, rid, sid))
  /\ UNCHANGED <<now, utc_offset, okStatus, indicator>>

PageViewHelp_unassigned(u, rid, msg) ==
  /\ RequestExists(db, rid)
  /\ is_specialist(u)
  /\ db.requests[rid].status # "completed"
  /\ msg # ""
  /\ Call("create_help_request", create_help_request(db, disk, rid, u, msg, now))
  /\ UNCHANGED <<now, utc_offset, okStatus, indicator>>

\* page_view_request: the form "need help"; an empty message is refused
PageViewHelp(u, rid, msg) ==
  /\ RequestExists(db, rid)
  /\ is_specialist(u)
  /\ db.requests[rid].assigned_to = Some(u)
  /\ db.requests[rid].status # "completed"
  /\ msg # ""
  /\ Call("create_help_request", create_help_request(db, disk, rid, u, msg, now))
  /\ UNCHANGED <<now, utc_offset, okStatus, indicator>>

\* page_edit_request: the submitted form. update_request, then
\* update_request_status when the selected status differs.
PageEditSave(u, rid, sel, new_deadline) ==
  /\ is_admin(u) \/ is_specialist(u)
  /\ RequestExists(db, rid)
  /\ LET r == db.requests[rid]
         upd == [has_cost |-> TRUE, cost |-> r.estimated_cost,
                 has_deadline |-> can_qm_actions(u) /\ new_deadline # EmptyStr,
                 deadline |-> new_deadline]
         res1 == update_request(db, disk, rid, upd)
         res2 == update_request_status(res1.db, res1.disk, rid, sel, u, now)
     IN /\ ~(is_specialist(u) /\ r.assigned_to # NULL /\ r.assigned_to # Some(u))
        /\ IF res1.ret.ok /\ sel # r.status
           THEN /\ Call("update_request_status", res2)
                /\ okStatus' = IF res2.ret.ok
                               THEN [okStatus EXCEPT ![rid] = @ + 1] ELSE okStatus
           ELSE /\ Call("update_request", res1)
                /\ okStatus' = okStatus
  /\ UNCHANGED <<now, utc_offset, indicator>>

\* page_quality_control: "apply" (attach an assistant / reassign the master)
PageQCApply(u, h, reassign, sid) ==
  /\ can_qm_actions(u)
  /\ h \in list_open_help_requests(db)
  /\ sid \in Specialists
  /\ LET rid == db.help_requests[h].request_id
     IN IF reassign
        THEN Call("reassign_master", reassign_master(db, disk, rid, sid))
        ELSE Call("set_assistant_master", set_assistant_master(db, disk, rid, sid))
  /\ UNCHANGED <<now, utc_offset, okStatus, indicator>>

\* page_quality_control: "extend"; refused unless the approval is confirmed
\* and reason.strip() and approval.strip() are non-empty
PageQCExtend(u, h, dt, reason, approval, approved) ==
  /\ can_qm_actions(u)
  /\ h \in list_open_help_requests(db)
  /\ approved /\ reason # "" /\ approval # ""
  /\ Call("extend_deadline",
          extend_deadline(db, disk, db.help_requests[h].request_id, Ts(dt),
                          reason, approval, u, now))
  /\ UNCHANGED <<now, utc_offset, okStatus, indicator>>

\* page_quality_control: "close the help request"
PageQCClose(u, h, note) ==
  /\ can_qm_actions(u)
  /\ h \in list_open_help_requests(db)
  /\ Call("resolve_help_request", resolve_help_request(db, disk, h, u, note, now))
  /\ UNCHANGED <<now, utc_offset, okStatus, indicator>>

\* page_specialists: "add user"
PageAddUser(u, username, password, r) ==
  /\ is_admin(u)
  /\ username # "" /\ password # ""
  /\ Call("add_user", add_user(db, disk, username, password, r))
  /\ UNCHANGED <<now, utc_offset, okStatus, indicator>>

InitApp == InitWith(MaxAppCalls)

Sessions == DOMAIN db.users

NextApp ==
  \/ \E u \in Sessions : PageNewRequest(u, 1000)
        /\ UNCHANGED session
  \/ \E u \in Sessions, rid \in RequestIds : PageViewTake(u, rid)
        /\ UNCHANGED session
  \/ \E u \in Sessions, rid \in RequestIds, sel \in Statuses :
        PageViewSaveStatus(u, rid, sel)
        /\ UNCHANGED session
  \/ \E u \in Sessions, rid \in RequestIds, sid \in DOMAIN db.users :
        PageViewAssign(u, rid, sid)
        /\ UNCHANGED session
  \/ \E u \in Sessions, rid \in RequestIds, msg \in {"", "help"} : PageViewHelp(u, rid, msg)
        /\ UNCHANGED session
  \/ \E u \in Sessions, rid \in RequestIds, sel \in Statuses,
        dl \in {EmptyStr, Ts(2 * DaySeconds)} : PageEditSave(u, rid, sel, dl)
        /\ UNCHANGED session
  \/ \E u \in Sessions, h \in HelpIds, reassign \in BOOLEAN, sid \in DOMAIN db.users :
        PageQCApply(u, h, reassign, sid)
        /\ UNCHANGED session
  \/ \E u \in Sessions, h \in HelpIds :
        PageQCExtend(u, h, 5 * DaySeconds, "reason", "approval", TRUE)
        /\ UNCHANGED session
  \/ \E u \in Sessions, h \in HelpIds : PageQCClose(u, h, "note")
        /\ UNCHANGED session
  \/ \E u \in Sessions, name \in {"petrov", "ivanov"} : PageAddUser(u, name, "pass", "specialist")
        /\ UNCHANGED session

SpecApp == InitApp /\ [][NextApp]_vars

---------------------------------------------------------------------------
(* SpecRisk: the risk indicator rendered from stored requests *)

\* page_all_requests / page_view_request render deadline_state(r) of the
\* row just read; indicator keeps what was read and what was shown.
Render(rid) ==
  /\ RequestExists(db, rid)
  /\ indicator' =
       [rendered |-> TRUE, status |-> db.requests[rid].status,
        deadline |-> db.requests[rid].deadline,
        deadline_extended_to |-> db.requests[rid].deadline_extended_to,
        at |-> now, out |-> deadline_state(db.requests[rid], now)]
  /\ UNCHANGED <<now, utc_offset, session, db, disk, ret, okStatus, budget, thread, cursor>>

InitRisk == InitWith(MaxRiskCalls)

\* Deadlines a caller stores: around now and around now + 24 h, and texts
\* that are no timestamp.
RiskDeadlines ==
  {Ts(now - 1), Ts(now), Ts(now + DaySeconds), Ts(now + DaySeconds + 1),
   EmptyStr, BadStr}

NextRisk ==
  \/ AddRequest(CostNone)
  \/ \E r \in RequestIds, dl \in RiskDeadlines : UpdateRequest(r, DeadlineUpdate(dl))
  \/ \E r \in RequestIds, dl \in RiskDeadlines :
        ExtendDeadline(r, dl, "reason", "approval", 3)
  \/ \E r \in RequestIds, st \in {"completed", "in_repair"} : UpdateRequestStatus(r, st, 2)
  \/ \E r \in RequestIds : Render(r)
  \/ Tick

SpecRisk == InitRisk /\ [][NextRisk]_vars

---------------------------------------------------------------------------
(* SpecNumber: request numbers over several days, one create at a time *)

\* The clock passes midnight: datetime.now().strftime("%Y%m%d") changes.
Midnight ==
  /\ now \div DaySeconds < MaxDays
  /\ now' = (now \div DaySeconds + 1) * DaySeconds
  /\ UNCHANGED <<utc_offset, session, db, disk, ret, okStatus, budget, indicator, thread,
                 cursor>>

InitNumber == InitWith(MaxNumberCalls)

NextNumber ==
  \/ \E cost \in {CostNone, CostText} : AddRequest(cost)
  \/ \E r \in RequestIds, by \in StatusActors : UpdateRequestStatus(r, "in_repair", by)
  \/ Reopen
  \/ Midnight

SpecNumber == InitNumber /\ [][NextNumber]_vars

---------------------------------------------------------------------------
(* SpecCreate: add_request run by script threads that share the cached *)
(* Database (one connection, one cursor) and interleave between statements *)

\* The except branch: print, return None; nothing is rolled back.
CreateFails(p, why) ==
  /\ thread' = [thread EXCEPT ![p].pc = "idle", ![p].result = why]
  /\ ret' = [op |-> "add_request", ok |-> FALSE]

\* generate_request_number: date_part, cursor.execute(SELECT COUNT(*) ...)
CreateSelect(p) ==
  /\ thread[p].pc = "idle"
  /\ budget > 0
  /\ budget' = budget - 1
  /\ LET number == generate_request_number(db, now)
     IN /\ cursor' = [cursor EXCEPT !.row = Some(number.seq - 1)]
        /\ thread' = [thread EXCEPT ![p] =
                        [Idle EXCEPT !.pc = "fetch", !.number.date = number.date]]
  /\ UNCHANGED <<now, utc_offset, session, db, disk, ret, okStatus, indicator>>

\* generate_request_number: cursor.fetchone()["cnt"] + 1; fetchone() is None
\* when another thread fetched the row or ran a statement on the cursor.
CreateFetch(p) ==
  /\ thread[p].pc = "fetch"
  /\ IF cursor.row = NULL
     THEN CreateFails(p, "nofetch") /\ UNCHANGED cursor
     ELSE /\ thread' = [thread EXCEPT ![p].pc = "insert",
                                      ![p].number.seq = cursor.row[1] + 1]
          /\ cursor' = [cursor EXCEPT !.row = NULL]
          /\ ret' = ret
  /\ UNCHANGED <<now, utc_offset, session, db, disk, okStatus, budget, indicator>>

\* add_request: cursor.execute(INSERT INTO requests ...)
CreateInsert(p) ==
  /\ thread[p].pc = "insert"
  /\ LET res == insert_request(db, thread[p].number, CostNum(1000), now)
     IN IF ~res.ok
        THEN /\ CreateFails(p, "conflict")
             /\ cursor' = [cursor EXCEPT !.row = NULL]
             /\ db' = db
        ELSE /\ db' = res.db
             /\ cursor' = [row |-> NULL, lastrowid |-> Len(res.db.requests)]
             /\ thread' = [thread EXCEPT ![p].pc = "rowid"]
             /\ ret' = ret
  /\ UNCHANGED <<now, utc_offset, session, disk, okStatus, budget, indicator>>

\* add_request: request_id = int(self.cursor.lastrowid)
CreateRowid(p) ==
  /\ thread[p].pc = "rowid"
  /\ thread' = [thread EXCEPT ![p].pc = "history", ![p].rid = cursor.lastrowid]
  /\ UNCHANGED <<now, utc_offset, session, db, disk, ret, okStatus, budget, indicator, cursor>>

\* add_request: cursor.execute(INSERT INTO status_history ...)
CreateHistory(p) ==
  /\ thread[p].pc = "history"
  /\ LET res == insert_initial_history(db, thread[p].rid)
     IN IF ~res.ok
        THEN /\ CreateFails(p, "fk")
             /\ cursor' = [cursor EXCEPT !.row = NULL]
             /\ db' = db
        ELSE /\ db' = res.db
             /\ cursor' = [row |-> NULL, lastrowid |-> Len(res.db.history)]
             /\ thread' = [thread EXCEPT ![p].pc = "commit"]
             /\ ret' = ret
  /\ UNCHANGED <<now, utc_offset, session, disk, okStatus, budget, indicator>>

\* add_request: self.conn.commit(); return request_id
CreateCommit(p) ==
  /\ thread[p].pc = "commit"
  /\ disk' = db
  /\ thread' = [thread EXCEPT ![p].pc = "idle", ![p].result = "ok"]
  /\ ret' = [op |-> "add_request", ok |-> TRUE]
  /\ UNCHANGED <<now, utc_offset, session, db, okStatus, budget, indicator, cursor>>

InitCreate == InitWith(MaxCreateCalls)

NextCreate ==
  \/ \E p \in Threads : CreateSelect(p)
  \/ \E p \in Threads : CreateFetch(p)
  \/ \E p \in Threads : CreateInsert(p)
  \/ \E p \in Threads : CreateRowid(p)
  \/ \E p \in Threads : CreateHistory(p)
  \/ \E p \in Threads : CreateCommit(p)

SpecCreate == InitCreate /\ [][NextCreate]_vars

---------------------------------------------------------------------------
(* SpecHelp: the help workflow under direct calls of the Database methods *)

InitHelp == InitWith(MaxHelpCalls)

HelpInputs == [r : RequestIds, by : {2, 3}, message : {"", "help"}]
ResolveInputs == [h : HelpIds, by : {1, 3}, note : {"first", "second"}]

NextHelp ==
  \/ AddRequest(CostNone)
  \/ \E r \in RequestIds : AssignRequest(r, 2)
  \/ \E r \in RequestIds : UpdateRequestStatus(r, "completed", 2)
  \/ \E in \in HelpInputs : CreateHelpRequest(in.r, in.by, in.message)
  \/ \E in \in ResolveInputs : ResolveHelpRequest(in.h, in.by, in.note)

SpecHelp == InitHelp /\ [][NextHelp]_vars

---------------------------------------------------------------------------
(* SpecClaim: "take the request" run by script threads that interleave   *)
(* between the page's read of the request and the write                   *)

AddUser(username, password, r) ==
  /\ Call("add_user", add_user(db, disk, username, password, r))
  /\ UNCHANGED <<now, utc_offset, session, okStatus, indicator>>

\* page_view_request: r = get_request(rid); the button is rendered and
\* pressed when is_specialist() and not assigned_to and the status is not
\* completed.
TakeRead(p, u, rid) ==
  /\ thread[p].pc = "idle"
  /\ budget > Cardinality({q \in Threads : thread[q].pc = "take"})
  /\ RequestExists(db, rid)
  /\ is_specialist(u)
  /\ db.requests[rid].assigned_to = NULL
  /\ db.requests[rid].status # "completed"
  /\ thread' = [thread EXCEPT ![p] = [Idle EXCEPT !.pc = "take", !.rid = rid, !.user = u]]
  /\ UNCHANGED <<now, utc_offset, session, db, disk, ret, okStatus, budget, indicator, cursor>>

\* page_view_request: ok = db.assign_request(int(r["id"]), user_id())
TakeWrite(p) ==
  /\ thread[p].pc = "take"
  /\ LET res == assign_request(db, disk, thread[p].rid, thread[p].user)
     IN /\ Effect("assign_request", res)
        /\ thread' = [thread EXCEPT ![p].pc = "idle",
                        ![p].result = IF res.ret.ok THEN "ok" ELSE "failed"]
  /\ UNCHANGED <<now, utc_offset, session, okStatus, indicator, cursor>>

InitClaim == InitWith(MaxClaimCalls)

NextClaim ==
  \/ AddRequest(CostNone)
  \/ AddUser("petrov", "pass", "specialist")
  \/ \E r \in RequestIds : UpdateRequestStatus(r, "completed", 1)
  \/ \E p \in Threads, u \in Sessions, r \in RequestIds : TakeRead(p, u, r)
  \/ \E p \in Threads : TakeWrite(p)

SpecClaim == InitClaim /\ [][NextClaim]_vars

---------------------------------------------------------------------------
(* SpecAssign: assignment under direct calls of the Database methods *)

InitAssign == InitWith(MaxAssignCalls)

AssignInputs == [r : RequestIds, u : {2, 3, NoSuchUser}]

NextAssign ==
  \/ AddRequest(CostNone)
  \/ \E in \in AssignInputs : AssignRequest(in.r, in.u)
  \/ \E in \in AssignInputs : ReassignMaster(in.r, in.u)
  \/ \E in \in AssignInputs : SetAssistantMaster(in.r, in.u)
  \/ \E r \in RequestIds : UpdateRequestStatus(r, "completed", 2)

SpecAssign == InitAssign /\ [][NextAssign]_vars

---------------------------------------------------------------------------
(* SpecUpdate: update_request among the other Database methods *)

InitUpdate == InitWith(MaxUpdateCalls)

\* update_data with the keys estimated_cost, deadline and status; status
\* is not in the allowed list of update_request.
UpdateData(has_cost, cost, has_deadline, deadline, has_status, status) ==
  [has_cost |-> has_cost, cost |-> cost,
   has_deadline |-> has_deadline, deadline |-> deadline,
   has_status |-> has_status, status |-> status]

UpdateDatas ==
  { UpdateData(FALSE, 0, FALSE, EmptyStr, FALSE, "open"),
    UpdateData(FALSE, 0, FALSE, EmptyStr, TRUE, "completed"),
    UpdateData(TRUE, 500, FALSE, EmptyStr, FALSE, "open"),
    UpdateData(FALSE, 0, TRUE, Ts(DaySeconds), FALSE, "open"),
    UpdateData(TRUE, 700, TRUE, Ts(2 * DaySeconds), TRUE, "completed") }

UpdateInputs == [r : RequestIds, upd : UpdateDatas]

NextUpdate ==
  \/ AddRequest(CostNone)
  \/ \E in \in UpdateInputs : UpdateRequest(in.r, in.upd)
  \/ \E r \in RequestIds, by \in StatusActors : UpdateRequestStatus(r, "completed", by)
  \/ \E r \in RequestIds : AssignRequest(r, 2)
  \/ \E r \in RequestIds : SetAssistantMaster(r, 3)
  \/ \E r \in RequestIds : ReassignMaster(r, 3)
  \/ \E r \in RequestIds :
        ExtendDeadline(r, Ts(5 * DaySeconds), "parts", "agreed", 3)
  \/ \E r \in RequestIds : CreateHelpRequest(r, 2, "help")
  \/ \E h \in HelpIds : ResolveHelpRequest(h, 3, "done")
  \/ \E r \in RequestIds : AddComment(r, 2, "note")
  \/ AddUser("petrov", "pass", "specialist")
  \/ Reopen

SpecUpdate == InitUpdate /\ [][NextUpdate]_vars

---------------------------------------------------------------------------
(* SpecStatus: status changes by the admin and the technician *)

InitStatus == InitWith(MaxStatusCalls)

StatusInputs == [r : RequestIds, s : Statuses, by : {1, 2}]

NextStatus ==
  \/ AddRequest(CostNone)
  \/ \E r \in RequestIds : AssignRequest(r, 2)
  \/ \E in \in StatusInputs : UpdateRequestStatus(in.r, in.s, in.by)

SpecStatus == InitStatus /\ [][NextStatus]_vars

---------------------------------------------------------------------------
(* SpecSetStatus: update_request_status statement by statement, run by    *)
(* script threads that share the connection and its cursor                *)

\* The except branch: print, return False; nothing is rolled back.
StatusFails(p, why) ==
  /\ thread' = [thread EXCEPT ![p].pc = "idle", ![p].result = why]
  /\ ret' = [op |-> "update_request_status", ok |-> FALSE]

\* cursor.execute("SELECT status FROM requests WHERE id=?")
StatusSelect(p, request_id, new_status, changed_by) ==
  /\ thread[p].pc = "idle"
  /\ budget > 0
  /\ budget' = budget - 1
  /\ cursor' = [cursor EXCEPT !.row =
                  IF RequestExists(db, request_id)
                  THEN Some(db.requests[request_id].status) ELSE NULL]
  /\ thread' = [thread EXCEPT ![p] =
                  [Idle EXCEPT !.pc = "sfetch", !.rid = request_id,
                               !.user = changed_by, !.new_status = new_status]]
  /\ UNCHANGED <<now, utc_offset, session, db, disk, ret, okStatus, indicator>>

\* row = cursor.fetchone(); if not row: return False; old_status = row["status"]
StatusFetch(p) ==
  /\ thread[p].pc = "sfetch"
  /\ IF cursor.row = NULL
     THEN /\ thread' = [thread EXCEPT ![p].pc = "idle", ![p].result = "norow"]
          /\ ret' = [op |-> "update_request_status", ok |-> FALSE]
          /\ cursor' = cursor
     ELSE /\ thread' = [thread EXCEPT ![p].pc = "supdate",
                                      ![p].old_status = cursor.row[1]]
          /\ cursor' = [cursor EXCEPT !.row = NULL]
          /\ ret' = ret
  /\ UNCHANGED <<now, utc_offset, session, db, disk, okStatus, budget, indicator>>

\* completed_date = now if new_status == 'завершена' else None;
\* cursor.execute("UPDATE requests SET status=?, completed_date=? WHERE id=?")
StatusUpdate(p) ==
  /\ thread[p].pc = "supdate"
  /\ db' = IF RequestExists(db, thread[p].rid)
           THEN [db EXCEPT
                   !.requests[thread[p].rid].status = thread[p].new_status,
                   !.requests[thread[p].rid].completed_date =
                       IF thread[p].new_status = "completed" THEN Some(now) ELSE NULL]
           ELSE db
  /\ cursor' = [cursor EXCEPT !.row = NULL]
  /\ thread' = [thread EXCEPT ![p].pc = "shistory"]
  /\ UNCHANGED <<now, utc_offset, session, disk, ret, okStatus, budget, indicator>>

\* cursor.execute("INSERT INTO status_history ..."): request_id and
\* changed_by are foreign keys
StatusHistory(p) ==
  /\ thread[p].pc = "shistory"
  /\ IF ~RequestExists(db, thread[p].rid) \/ ~UserExists(db, thread[p].user)
     THEN /\ StatusFails(p, "fk")
          /\ db' = db
          /\ cursor' = [cursor EXCEPT !.row = NULL]
     ELSE /\ db' = [db EXCEPT !.history = Append(@,
                      [request_id |-> thread[p].rid,
                       old_status |-> Some(thread[p].old_status),
                       new_status |-> thread[p].new_status,
                       changed_by |-> Some(thread[p].user)])]
          /\ cursor' = [row |-> NULL, lastrowid |-> Len(db.history) + 1]
          /\ thread' = [thread EXCEPT ![p].pc = "scommit"]
          /\ ret' = ret
  /\ UNCHANGED <<now, utc_offset, session, disk, okStatus, budget, indicator>>

\* self.conn.commit(); return True
StatusCommit(p) ==
  /\ thread[p].pc = "scommit"
  /\ disk' = db
  /\ thread' = [thread EXCEPT ![p].pc = "idle", ![p].result = "ok"]
  /\ ret' = [op |-> "update_request_status", ok |-> TRUE]
  /\ okStatus' = [okStatus EXCEPT ![thread[p].rid] = @ + 1]
  /\ UNCHANGED <<now, utc_offset, session, db, budget, indicator, cursor>>

\* No thread is inside a Database method.
Quiescent == \A p \in Threads : thread[p].pc = "idle"

InitSetStatus == InitWith(MaxSetStatusCalls)

SetStatusInputs == [r : RequestIds, s : {"in_repair", "completed"}, by : {1, 2}]

NextSetStatus ==
  \/ Quiescent /\ AddRequest(CostNone)
  \/ \E p \in Threads, in \in SetStatusInputs : StatusSelect(p, in.r, in.s, in.by)
  \/ \E p \in Threads : StatusFetch(p)
  \/ \E p \in Threads : StatusUpdate(p)
  \/ \E p \in Threads : StatusHistory(p)
  \/ \E p \in Threads : StatusCommit(p)

SpecSetStatus == InitSetStatus /\ [][NextSetStatus]_vars

---------------------------------------------------------------------------
(* SpecStats: creation and get_statistics on hosts in several time zones *)

\* get_statistics: end_date = datetime.now(), start_date = end_date minus
\* the period; the counts of the requests with created_date BETWEEN the two.
get_statistics(d, t, days) ==
  LET end_date == t
      start_date == t - days * DaySeconds
      inPeriod == {r \in DOMAIN d.requests :
                     /\ start_date <= d.requests[r].created_date
                     /\ d.requests[r].created_date <= end_date}
      countOf(st) == Cardinality({r \in inPeriod : d.requests[r].status = st})
  IN [total_requests |-> Cardinality(inPeriod),
      completed_requests |-> countOf("completed"),
      open_requests |-> countOf("open"),
      in_progress_requests |-> countOf("in_repair")]

GetStatistics ==
  /\ budget > 0
  /\ budget' = budget - 1
  /\ ret' = [op |-> "get_statistics", ok |-> TRUE]
  /\ UNCHANGED <<now, utc_offset, session, db, disk, okStatus, indicator, thread, cursor>>

InitStats == InitAt(MaxStatsCalls, UtcOffsets)

StatsCosts == {CostNone, CostNum(1000), CostText}

NextStats ==
  \/ \E cost \in StatsCosts : AddRequest(cost)
  \/ \E r \in RequestIds : UpdateRequestStatus(r, "completed", 2)
  \/ GetStatistics
  \/ Tick

SpecStats == InitStats /\ [][NextStats]_vars

---------------------------------------------------------------------------
(* SpecFailure: the Database methods called with ids that are not stored *)

InitFailure == InitWith(MaxFailureCalls)

NextFailure ==
  \/ \E cost \in {CostNone, CostText} : AddRequest(cost)
  \/ \E r \in RequestIds, by \in {2, NoSuchUser} :
        UpdateRequestStatus(r, "in_repair", by)
  \/ \E r \in RequestIds, u \in {2, NoSuchUser} : AssignRequest(r, u)
  \/ \E r \in RequestIds, u \in {2, NoSuchUser} : SetAssistantMaster(r, u)
  \/ \E r \in RequestIds, by \in {3, NoSuchUser} :
        ExtendDeadline(r, Ts(2 * DaySeconds), "reason", "approval", by)
  \/ \E r \in RequestIds, by \in {2, NoSuchUser} : CreateHelpRequest(r, by, "help")
  \/ \E h \in HelpIds, by \in {3, NoSuchUser} : ResolveHelpRequest(h, by, "note")
  \/ \E r \in RequestIds, u \in {2, NoSuchUser} : AddComment(r, u, "text")
  \/ Reopen

SpecFailure == InitFailure /\ [][NextFailure]_vars

---------------------------------------------------------------------------
(* SpecList: get_requests over requests with customer fields *)

\* Text is a sequence of one-character strings.

\* sqlite's LIKE folds the case of ASCII letters.
Fold(c) ==
  CASE c = "A" -> "a" [] c = "B" -> "b" [] c = "R" -> "r"
    [] c = "E" -> "e" [] c = "Q" -> "q" [] OTHER -> c

\* text LIKE pattern: % matches any run of characters, _ any one character
RECURSIVE Like(_, _)
Like(pattern, text) ==
  IF pattern = <<>> THEN text = <<>>
  ELSE IF Head(pattern) = "%"
       THEN Like(Tail(pattern), text) \/ (text # <<>> /\ Like(pattern, Tail(text)))
       ELSE /\ text # <<>>
            /\ Head(pattern) = "_" \/ Fold(Head(pattern)) = Fold(Head(text))
            /\ Like(Tail(pattern), Tail(text))

\* column LIKE ? with a NULL column is NULL, which WHERE treats as false
LikeColumn(pattern, column) == column # NULL /\ Like(pattern, column[1])

\* f"{n:0{width}d}"
RECURSIVE Digits(_, _)
Digits(n, width) ==
  IF width = 0 THEN <<>>
  ELSE Append(Digits(n \div 10, width - 1),
              <<"0", "1", "2", "3", "4", "5", "6", "7", "8", "9">>[(n % 10) + 1])

\* f"{prefix}{date_part}{cnt:04d}"; day 0 of the clock is 2026-01-01
RequestNumberText(number) ==
  <<"R", "E", "Q">> \o Digits(20260101 + number.date, 8) \o Digits(number.seq, 4)

\* add_request with request_data holding customer_name and customer_phone
add_request_for(d, k, name, phone, t) ==
  LET res == add_request(d, k, CostNone, t)
      d2 == [res.db EXCEPT !.requests[res.ret.id].customer_name = Some(name),
                           !.requests[res.ret.id].customer_phone = Some(phone)]
  IN IF res.ret.ok THEN Res(d2, d2, TRUE, res.ret.id) ELSE res

\* get_requests: the ids of the rows selected.  A filter whose value is
\* falsy (absent, '', 0) adds no condition.
get_requests(d, filters) ==
  LET s == <<"%">> \o filters.search[1] \o <<"%">>
  IN {i \in DOMAIN d.requests :
        LET r == d.requests[i]
        IN /\ filters.status # NULL /\ filters.status[1] # "" =>
                 r.status = filters.status[1]
           /\ filters.assigned_to # NULL /\ filters.assigned_to[1] # 0 =>
                 r.assigned_to = filters.assigned_to
           /\ filters.search # NULL /\ filters.search[1] # <<>> =>
                 \/ Like(s, RequestNumberText(r.request_number))
                 \/ LikeColumn(s, r.customer_name)
                 \/ LikeColumn(s, r.customer_phone)
           /\ filters.date_from # NULL =>
                 r.created_date \div DaySeconds >= filters.date_from[1]
           /\ filters.date_to # NULL =>
                 r.created_date \div DaySeconds <= filters.date_to[1]}

AddRequestFor(name, phone) ==
  /\ LET res == add_request_for(db, disk, name, phone, now)
     IN /\ Call("add_request", res)
        /\ okStatus' = IF res.ret.ok THEN Append(okStatus, 0) ELSE okStatus
  /\ UNCHANGED <<now, utc_offset, session, indicator>>

GetRequests ==
  /\ budget > 0
  /\ budget' = budget - 1
  /\ ret' = [op |-> "get_requests", ok |-> TRUE]
  /\ UNCHANGED <<now, utc_offset, session, db, disk, okStatus, indicator, thread, cursor>>

InitList == InitWith(MaxListCalls)

CustomerNames == {<<"a", "b">>, <<"B", "_", "a">>}
CustomerPhones == {<<"8", "9">>}
Searches == {<<"b">>, <<"a", "b">>, <<"_">>, <<"%">>, <<"r", "e", "q">>, <<"9">>, <<"x">>}

ListFilters ==
  [status : {NULL, Some("open"), Some("completed")},
   assigned_to : {NULL, Some(2)},
   search : {NULL} \cup {Some(x) : x \in Searches},
   date_from : {NULL, Some(0), Some(1)},
   date_to : {NULL, Some(0), Some(1)}]

NextList ==
  \/ \E name \in CustomerNames, phone \in CustomerPhones : AddRequestFor(name, phone)
  \/ \E r \in RequestIds : AssignRequest(r, 2)
  \/ \E r \in RequestIds : UpdateRequestStatus(r, "completed", 2)
  \/ GetRequests
  \/ Midnight

SpecList == InitList /\ [][NextList]_vars

---------------------------------------------------------------------------
(* SpecCompleted: completing and reopening while the clock advances *)

InitCompleted == InitWith(MaxCompletedCalls)

CompletedInputs == [r : RequestIds, s : {"open", "completed"}, by : {2, NoSuchUser}]

NextCompleted ==
  \/ AddRequest(CostNone)
  \/ \E in \in CompletedInputs : UpdateRequestStatus(in.r, in.s, in.by)
  \/ Tick
  \/ Reopen

SpecCompleted == InitCompleted /\ [][NextCompleted]_vars

---------------------------------------------------------------------------
(* SpecUsers: add_user with new and stored usernames, among other calls  *)

InitUsers == InitWith(MaxUserCalls)

\* user_data of add_user: stored and new usernames, the password of a
\* seeded user and another one, every role
UserInputs ==
  [username : {"admin", "ivanov", "petrov"},
   password : {"spec123", "other"},
   role : Roles]

NextUsers ==
  \/ \E in \in UserInputs : AddUser(in.username, in.password, in.role)
  \/ AddRequest(CostNone)
  \/ \E r \in RequestIds, u \in DOMAIN db.users : AssignRequest(r, u)
  \/ \E r \in RequestIds, by \in {1, NoSuchUser} :
        UpdateRequestStatus(r, "completed", by)
  \/ Reopen

SpecUsers == InitUsers /\ [][NextUsers]_vars

---------------------------------------------------------------------------
(* SpecNav: one browser session; every action is one run of the script   *)
(* (sidebar_nav, then the page router() dispatches to)                   *)

\* authenticate_user: the active user with this username whose stored
\* password is _sha256(password); 0 for None
authenticate_user(d, username, password) ==
  LET found == {u \in DOMAIN d.users :
                  /\ d.users[u].username = username
                  /\ d.users[u].password = _sha256(password)
                  /\ d.users[u].is_active = 1}
  IN IF found = {} THEN 0 ELSE CHOOSE u \in found : TRUE

\* sidebar_nav: the items of the selectbox for the logged-in user u on page p
nav_items(u, p) ==
  {"dashboard", "all_requests", "statistics", "logout"}
     \cup (IF is_admin(u) \/ is_specialist(u) THEN {"new_request"} ELSE {})
     \cup (IF can_qm_actions(u) THEN {"quality_control"} ELSE {})
     \cup (IF is_admin(u) THEN {"users"} ELSE {})
     \cup (IF p \in {"view_request", "edit_request"} THEN {p} ELSE {})

\* sidebar_nav: the item the selectbox shows when the user does not touch it
current_label(ss) ==
  IF ss.page \in nav_items(ss.user, ss.page) THEN ss.page ELSE "dashboard"

\* sidebar_nav with the selectbox at selected: the session it leaves
sidebar_nav(ss, selected) ==
  IF ss.user = 0
  THEN [ss EXCEPT !.page = "login"]
  ELSE IF selected = "logout"
       THEN [ss EXCEPT !.user = 0, !.page = "login", !.shown = "rerun"]
       ELSE [ss EXCEPT !.page = selected]

\* router: what the page function of ss.page renders when no button is
\* pressed; the session it leaves
router(ss) ==
  LET u == ss.user
      p == ss.page
  IN IF p = "login" THEN [ss EXCEPT !.shown = "login"]
     ELSE IF p \in {"dashboard", "all_requests", "statistics"}
     THEN [ss EXCEPT !.shown = p]
     ELSE IF p = "new_request"
     THEN [ss EXCEPT !.shown = IF is_admin(u) \/ is_specialist(u) THEN p ELSE "denied"]
     ELSE IF p = "view_request"
     THEN IF RequestExists(db, ss.view_request_id)
          THEN [ss EXCEPT !.shown = p]
          ELSE [ss EXCEPT !.page = "all_requests", !.shown = "rerun"]
     ELSE IF p = "edit_request"
     THEN IF ~(is_admin(u) \/ is_specialist(u))
          THEN [ss EXCEPT !.shown = "denied"]
          ELSE IF ~RequestExists(db, ss.edit_request_id)
          THEN [ss EXCEPT !.page = "all_requests", !.shown = "rerun"]
          ELSE IF /\ is_specialist(u)
                  /\ db.requests[ss.edit_request_id].assigned_to # NULL
                  /\ db.requests[ss.edit_request_id].assigned_to # Some(u)
          THEN [ss EXCEPT !.shown = "denied"]
          ELSE [ss EXCEPT !.shown = p]
     ELSE IF p = "quality_control"
     THEN [ss EXCEPT !.shown = IF can_qm_actions(u) THEN p ELSE "denied"]
     ELSE IF p = "users"
     THEN [ss EXCEPT !.shown = IF is_admin(u) THEN p ELSE "denied"]
     ELSE [ss EXCEPT !.page = "dashboard", !.shown = "rerun"]

\* A run in which the user picks an item of the selectbox (or leaves it)
\* and presses nothing.
NavSelect(selected) ==
  /\ session.user # 0 => selected \in nav_items(session.user, session.page)
  /\ LET ss == sidebar_nav(session, selected)
     IN session' = IF session.user # 0 /\ selected = "logout"
                   THEN ss ELSE router(ss)
  /\ UNCHANGED <<now, utc_offset, db, disk, ret, okStatus, budget, indicator,
                 thread, cursor>>

\* page_login: the submitted form
NavLogin(username, password) ==
  /\ session.user = 0
  /\ LET user == authenticate_user(db, username, password)
     IN session' = IF user # 0
                   THEN [session EXCEPT !.user = user, !.page = "dashboard",
                                        !.shown = "rerun"]
                   ELSE [session EXCEPT !.page = "login", !.shown = "login"]
  /\ UNCHANGED <<now, utc_offset, db, disk, ret, okStatus, budget, indicator,
                 thread, cursor>>

\* The run reaches the body of the page function of page p: sidebar_nav
\* with the selectbox untouched leaves page p, and the page function
\* passes its guards.
OnPage(p) ==
  /\ session.user # 0
  /\ current_label(session) = p
  /\ router([session EXCEPT !.page = p]).shown = p

\* The buttons that only set st.session_state.page (and the request id)
\* and call st.rerun()
NavButton(target, rid) ==
  /\ \/ /\ OnPage("dashboard")
        /\ \/ target = "new_request"
                 /\ (is_admin(session.user) \/ is_specialist(session.user))
           \/ target \in {"all_requests", "statistics"}
           \/ target = "quality_control" /\ can_qm_actions(session.user)
        /\ rid = 0
     \/ /\ OnPage("new_request")
        /\ target = "all_requests" /\ rid = 0
     \/ /\ OnPage("all_requests")
        /\ RequestExists(db, rid)
        /\ \/ target = "view_request"
           \/ target = "edit_request"
                 /\ (is_admin(session.user) \/ is_specialist(session.user))
     \/ /\ OnPage("view_request")
        /\ \/ target = "all_requests" /\ rid = 0
           \/ /\ target = "edit_request" /\ rid = session.view_request_id
              /\ is_admin(session.user) \/ is_specialist(session.user)
     \/ /\ OnPage("edit_request")
        /\ target = "view_request" /\ rid = 0
     \/ /\ OnPage("quality_control")
        /\ target = "view_request"
        /\ \E h \in list_open_help_requests(db) : db.help_requests[h].request_id = rid
  /\ session' = [session EXCEPT
                   !.page = target,
                   !.view_request_id = IF target = "view_request" /\ rid # 0 THEN rid ELSE @,
                   !.edit_request_id = IF target = "edit_request" THEN rid ELSE @,
                   !.shown = "rerun"]
  /\ UNCHANGED <<now, utc_offset, db, disk, ret, okStatus, budget, indicator,
                 thread, cursor>>

\* page_new_request: "create"; on success the view page of the new request
NavNewRequest(cost) ==
  /\ OnPage("new_request")
  /\ PageNewRequest(session.user, cost)
  /\ session' = IF ret'.ok
                THEN [session EXCEPT !.page = "view_request",
                                     !.view_request_id = Len(db'.requests),
                                     !.shown = "rerun"]
                ELSE [session EXCEPT !.page = "new_request", !.shown = "new_request"]

\* page_view_request: "take the request" and "need help"
NavViewTake ==
  /\ OnPage("view_request")
  /\ PageViewTake(session.user, session.view_request_id)
  /\ session' = [session EXCEPT !.page = "view_request",
                                !.shown = IF ret'.ok THEN "rerun" ELSE "view_request"]

NavViewHelp(msg) ==
  /\ OnPage("view_request")
  /\ PageViewHelp(session.user, session.view_request_id, msg)
  /\ session' = [session EXCEPT !.page = "view_request",
                                !.shown = IF ret'.ok THEN "rerun" ELSE "view_request"]

\* page_edit_request: "save"; on success the view page
NavEditSave(sel, new_deadline) ==
  /\ OnPage("edit_request")
  /\ PageEditSave(session.user, session.edit_request_id, sel, new_deadline)
  /\ session' = IF ret'.ok
                THEN [session EXCEPT !.page = "view_request",
                                     !.view_request_id = session.edit_request_id,
                                     !.shown = "rerun"]
                ELSE [session EXCEPT !.page = "edit_request", !.shown = "edit_request"]

\* page_quality_control: "extend" and "close the help request"
NavQCExtend(h) ==
  /\ OnPage("quality_control")
  /\ PageQCExtend(session.user, h, 5 * DaySeconds, "reason", "approval", TRUE)
  /\ session' = [session EXCEPT !.page = "quality_control", !.shown = "quality_control"]

NavQCClose(h, note) ==
  /\ OnPage("quality_control")
  /\ PageQCClose(session.user, h, note)
  /\ session' = [session EXCEPT !.page = "quality_control", !.shown = "rerun"]

\* page_specialists: "add"
NavAddUser(username, password, r) ==
  /\ OnPage("users")
  /\ PageAddUser(session.user, username, password, r)
  /\ session' = [session EXCEPT !.page = "users", !.shown = "rerun"]

\* The store the session finds: request 1 was created earlier and the
\* specialist ivanov (user 2) has taken it.
NavTables ==
  LET created == add_request(EmptyTables, EmptyTables, CostNum(1000), 0)
  IN assign_request(created.db, created.disk, 1, 2).db

InitNav ==
  /\ now = 0
  /\ utc_offset = 0
  /\ db = NavTables
  /\ disk = NavTables
  /\ ret = [op |-> "init", ok |-> TRUE]
  /\ okStatus = <<0>>
  /\ budget = MaxNavCalls
  /\ indicator = NotRendered
  /\ thread = [p \in Threads |-> Idle]
  /\ cursor = [row |-> NULL, lastrowid |-> 0]
  /\ session = NoSession

\* The three accounts the login page lists, a wrong password, and the
\* account an admin may add
Logins ==
  { <<"admin", "admin123">>, <<"ivanov", "spec123">>, <<"qmanager", "qm123">>,
    <<"ivanov", "qm123">>, <<"petrov", "pass">> }

NavPages ==
  {"dashboard", "new_request", "all_requests", "view_request", "edit_request",
   "quality_control", "users", "statistics", "logout"}

NextNav ==
  \/ \E selected \in NavPages : NavSelect(selected)
  \/ \E l \in Logins : NavLogin(l[1], l[2])
  \/ \E target \in NavPages, rid \in 0..Len(db.requests) : NavButton(target, rid)
  \/ NavNewRequest(1000)
  \/ NavViewTake
  \/ NavViewHelp("help")
  \/ NavEditSave("in_repair", EmptyStr)
  \/ \E h \in HelpIds : NavQCExtend(h)
  \/ \E h \in HelpIds : NavQCClose(h, "note")
  \/ NavAddUser("petrov", "pass", "specialist")

SpecNav == InitNav /\ [][NextNav]_vars

---------------------------------------------------------------------------
(* Helpers of the properties *)

\* The status-history rows of request r, in insertion order.
HistoryOf(d, r) == SelectSeq(d.history, LAMBDA h : h.request_id = r)

\* This step is a call of the method op.
Called(op) == budget' = budget - 1 /\ ret'.op = op

---------------------------------------------------------------------------
(* Claims about the lifecycle, checked under Spec *)

\* C1: update_request_status is atomic. A call that returns success has
\* stored the new status and exactly one more history row; a call that
\* returns failure leaves the requests and the history, as every later
\* operation sees them and as the next commit stores them, as they were.
C1_SetStatusAtomic ==
  [][Called("update_request_status") =>
       \/ /\ ret'.ok
          /\ Len(db'.history) = Len(db.history) + 1
          /\ disk' = db'
       \/ /\ ~ret'.ok
          /\ db'.requests = db.requests
          /\ db'.history = db.history
          /\ disk' = disk]_vars

\* C2: in every state, in the connection's view and on disk, a request has
\* a completed_date iff its status is completed.
CompletedDateIffCompleted(d) ==
  \A r \in DOMAIN d.requests :
     (d.requests[r].completed_date # NULL) <=> (d.requests[r].status = "completed")

C2_CompletedDateIffCompleted ==
  CompletedDateIffCompleted(db) /\ CompletedDateIffCompleted(disk)

\* C2 witness: a request that was completed and then reopened (its history
\* holds a row completed -> s, s not completed) and has no completed_date,
\* next to the operations the claim lists having run.
C2_Witness ==
  \E r \in DOMAIN db.requests :
     /\ db.requests[r].status # "completed"
     /\ db.requests[r].completed_date = NULL
     /\ \E i \in DOMAIN db.history :
           /\ db.history[i].request_id = r
           /\ db.history[i].old_status = Some("completed")
           /\ db.history[i].new_status # "completed"
     /\ db.requests[r].assigned_to # NULL

\* C4: every stored request has exactly one history row with old status
\* NULL, it is NULL -> open and it is the first row of the request; a step
\* of add_request that returns failure stores no request and no history row.
InitialEntry(d) ==
  \A r \in DOMAIN d.requests :
     LET h == HistoryOf(d, r)
     IN /\ Len(h) >= 1
        /\ h[1].old_status = NULL
        /\ h[1].new_status = "open"
        /\ \A i \in 2..Len(h) : h[i].old_status # NULL

C5_HistoryCount ==
  /\ DOMAIN okStatus = DOMAIN db.requests
  /\ \A r \in DOMAIN db.requests : Len(HistoryOf(db, r)) = 1 + okStatus[r]
  /\ \A r \in DOMAIN disk.requests : Len(HistoryOf(disk, r)) = 1 + okStatus[r]

\* C5 witness: create, setStatus(in_repair), setStatus(completed),
\* setStatus(open): 4 rows.
C5_Witness ==
  \E r \in DOMAIN db.requests :
     LET h == HistoryOf(db, r)
     IN /\ okStatus[r] = 3
        /\ Len(h) = 4
        /\ h[2].new_status = "in_repair"
        /\ h[3].new_status = "completed"
        /\ h[4].new_status = "open"

\* C6: the history of a request is a chain NULL -> open, each later row's
\* old status the new status of the row before it, the last row's new
\* status the request's status.
Chain(d) ==
  \A r \in DOMAIN d.requests :
     LET h == HistoryOf(d, r)
     IN /\ Len(h) >= 1
        /\ h[1].old_status = NULL /\ h[1].new_status = "open"
        /\ \A i \in 2..Len(h) : h[i].old_status = Some(h[i-1].new_status)
        /\ h[Len(h)].new_status = d.requests[r].status

C6_HistoryChain == Chain(db) /\ Chain(disk)

---------------------------------------------------------------------------
(* Claims about deadline extension, checked under SpecDeadline *)

ExtFields(r) ==
  <<r.deadline_extended_to, r.extension_reason, r.client_approval,
    r.client_approval_at, r.extended_by>>

\* This step is the call extend_deadline(in.r, in.d, in.reason, in.approval, in.by).
ExtendStep(in) ==
  LET res == extend_deadline(db, disk, in.r, in.d, in.reason, in.approval, in.by, now)
  IN /\ Called("extend_deadline")
     /\ db' = res.db /\ disk' = res.disk /\ ret'.ok = res.ret.ok

\* C7: extend_deadline called with an empty reason or an empty approval
\* text returns failure and leaves the five extension fields unchanged.
C7_ExtendRejectsEmpty ==
  [][\A in \in ExtendInputs :
        (in.reason = "" \/ in.approval = "") /\ ExtendStep(in) =>
           /\ ~ret'.ok
           /\ \A r \in DOMAIN db.requests :
                 ExtFields(db'.requests[r]) = ExtFields(db.requests[r])]_vars

\* C8: every request has no extension (all five fields absent) or a full
\* one (deadline present, reason and approval non-empty, timestamp and user
\* present).
NoExtension(r) ==
  /\ r.deadline_extended_to = NullStr
  /\ r.extension_reason = NULL /\ r.client_approval = NULL
  /\ r.client_approval_at = NULL /\ r.extended_by = NULL

FullExtension(r) ==
  /\ Truthy(r.deadline_extended_to)
  /\ r.extension_reason # NULL /\ r.extension_reason # Some("")
  /\ r.client_approval # NULL /\ r.client_approval # Some("")
  /\ r.client_approval_at # NULL /\ r.extended_by # NULL

C8_NoPartialExtension ==
  \A r \in DOMAIN db.requests :
     NoExtension(db.requests[r]) \/ FullExtension(db.requests[r])

\* C9: the effective deadline is the extended deadline when one is present
\* and the planned one otherwise; after every successful
\* extend_deadline(R, d, ...) it is d, whether d is later or earlier than
\* the deadline in effect before, so the most recent extension decides.
EffectiveIsExtendedElsePlanned(r) ==
  /\ r.deadline_extended_to.kind = "ts" => effective_deadline(r) = r.deadline_extended_to
  /\ r.deadline_extended_to.kind \in {"null", "empty"} /\ r.deadline.kind = "ts" =>
        effective_deadline(r) = r.deadline

C9_EffectiveDeadline ==
  [][/\ \A r \in DOMAIN db'.requests : EffectiveIsExtendedElsePlanned(db'.requests[r])
     /\ \A in \in ExtendInputs :
           ExtendStep(in) /\ ret'.ok => effective_deadline(db'.requests[in.r]) = in.d]_vars

---------------------------------------------------------------------------
(* Claims about the pages, checked under SpecApp *)

\* C3: a status change (a history row with an old status, or a changed
\* status column) is made only for an acting user who is an admin or the
\* request's assigned primary technician at that moment.
C3_StatusChangeAuthorized ==
  [][/\ \A i \in (Len(db.history) + 1)..Len(db'.history) :
           LET h == db'.history[i]
           IN h.old_status # NULL =>
                /\ h.changed_by # NULL
                /\ \/ db.users[h.changed_by[1]].role = "admin"
                   \/ db.requests[h.request_id].assigned_to = h.changed_by
     /\ \A r \in DOMAIN db.requests :
           db'.requests[r].status # db.requests[r].status =>
              \E i \in (Len(db.history) + 1)..Len(db'.history) :
                 db'.history[i].request_id = r]_vars

---------------------------------------------------------------------------
(* Claims about the risk indicator, checked under SpecRisk *)

\* The request that was rendered has a timestamp as effective deadline:
\* the extended one, or the planned one when no extended one is stored.
RenderedHasDeadline ==
  \/ indicator.deadline_extended_to.kind = "ts"
  \/ /\ indicator.deadline_extended_to.kind \in {"null", "empty"}
     /\ indicator.deadline.kind = "ts"

RenderedDeadline ==
  IF indicator.deadline_extended_to.kind = "ts"
  THEN indicator.deadline_extended_to.t
  ELSE indicator.deadline.t

RenderedNoDeadline ==
  /\ indicator.deadline_extended_to.kind \in {"null", "empty"}
  /\ indicator.deadline.kind \in {"null", "empty"}

RenderedMalformed ==
  \/ indicator.deadline_extended_to.kind = "bad"
  \/ /\ indicator.deadline_extended_to.kind \in {"null", "empty"}
     /\ indicator.deadline.kind = "bad"

\* C11: rendering the risk state never raises: the result is one of the
\* four texts, it is "" when the effective deadline is malformed, and the
\* rendering changes no stored state.
C11_RiskStateNeverFails ==
  [][indicator' # indicator =>
       /\ indicator'.out \in {"", "overdue", "at_risk", "on_track"}
       /\ RenderedMalformed' => indicator'.out = ""
       /\ db' = db /\ disk' = disk]_vars

\* C11 witness: a request in repair whose extended deadline is malformed
\* while its planned deadline is a timestamp was rendered as "".
C11_Witness ==
  /\ indicator.rendered
  /\ indicator.status = "in_repair"
  /\ indicator.deadline_extended_to.kind = "bad"
  /\ indicator.deadline.kind = "ts"
  /\ indicator.out = ""

---------------------------------------------------------------------------
(* Claims about request numbers, checked under SpecNumber *)

\* C12: in creation order the numbers of one day carry the sequence
\* 1, 2, 3, ... without gap or repeat: each is 1 + the count of the
\* requests stored before it with the same date, and the dates follow the
\* clock.
DailySequence(d) ==
  \A i \in DOMAIN d.requests :
     LET n == d.requests[i].request_number
     IN /\ n.seq = 1 + Cardinality({j \in 1..(i - 1) : d.requests[j].request_number.date = n.date})
        /\ n.date <= now \div (24 * 3600)
        /\ i > 1 => d.requests[i - 1].request_number.date <= n.date

C12_DailySequence == DailySequence(db) /\ DailySequence(disk)

\* C12 witness: two requests numbered 1, 2 on the first day and two
\* numbered 1, 2 on the next.
C12_Witness ==
  /\ Len(db.requests) = 4
  /\ db.requests[2].request_number = [date |-> 0, seq |-> 2]
  /\ db.requests[3].request_number = [date |-> 1, seq |-> 1]
  /\ db.requests[4].request_number = [date |-> 1, seq |-> 2]

---------------------------------------------------------------------------
(* Claims about interleaved creates, checked under SpecCreate *)

UniqueNumbers(d) ==
  \A i, j \in DOMAIN d.requests :
     i # j => d.requests[i].request_number # d.requests[j].request_number

\* C13: no two stored requests share a number, also when creates
\* interleave. A create whose number was stored by another create in the
\* meantime returns failure, stores no request and no history row, and is
\* not retried; of two creates that computed the same number at most one
\* succeeds.
C13_UniqueNumbers ==
  [][/\ UniqueNumbers(db') /\ UniqueNumbers(disk')
     /\ \A p \in Threads :
           /\ thread[p].pc = "insert"
           /\ thread'[p].pc # "insert"
           /\ \E i \in DOMAIN db.requests :
                 db.requests[i].request_number = thread[p].number
           => /\ ~ret'.ok
              /\ db' = db /\ disk' = disk
              /\ thread'[p].pc = "idle"
     /\ \A p, q \in Threads :
           p # q /\ thread'[p].number = thread'[q].number =>
              ~(thread'[p].result = "ok" /\ thread'[q].result = "ok")]_vars

\* C13 witness: two creates computed the same number; one stored its
\* request and history row and committed, the other was rejected by the
\* uniqueness constraint.
C13_Witness ==
  \E p, q \in Threads :
     /\ thread[p].result = "ok" /\ thread[q].result = "conflict"
     /\ thread[p].number = thread[q].number
     /\ thread[p].pc = "idle" /\ thread[q].pc = "idle"
     /\ Len(disk.requests) = 1 /\ Len(disk.history) = 1

---------------------------------------------------------------------------
(* Claims about the help workflow *)

ResolveStep(in) ==
  LET res == resolve_help_request(db, disk, in.h, in.by, in.note, now)
  IN /\ Called("resolve_help_request")
     /\ db' = res.db /\ disk' = res.disk /\ ret'.ok = res.ret.ok

\* C15 (SpecHelp): list_open_help_requests returns exactly the help
\* requests whose status is open, and resolve_help_request(h) changes
\* only help request h: every other help request, the requests, the
\* history, the comments and the users stay as they were.
C15_ResolveFrame ==
  [][/\ list_open_help_requests(db') =
          {h \in DOMAIN db'.help_requests : db'.help_requests[h].status = "open"}
     /\ \A in \in ResolveInputs :
           ResolveStep(in) =>
              /\ DOMAIN db'.help_requests = DOMAIN db.help_requests
              /\ \A h \in DOMAIN db.help_requests :
                    h # in.h => db'.help_requests[h] = db.help_requests[h]
              /\ db'.requests = db.requests
              /\ db'.history = db.history
              /\ db'.comments = db.comments
              /\ db'.users = db.users]_vars

\* C15 witness: two help requests on the same request were open, the first
\* has just been resolved, the second is open and is the one listed.
C15_Witness ==
  /\ ret = [op |-> "resolve_help_request", ok |-> TRUE]
  /\ Len(db.help_requests) = 2
  /\ db.help_requests[1].request_id = db.help_requests[2].request_id
  /\ db.help_requests[1].status = "resolved"
  /\ db.help_requests[2].status = "open"
  /\ list_open_help_requests(db) = {2}

\* C16 (SpecHelp): resolve_help_request on a help request that is already
\* resolved returns failure and leaves its resolver, resolution time and
\* note as the first resolution set them.
C16_ResolveOnce ==
  [][\A in \in ResolveInputs :
        /\ ResolveStep(in)
        /\ in.h \in DOMAIN db.help_requests
        /\ db.help_requests[in.h].status = "resolved"
        => /\ ~ret'.ok
           /\ db'.help_requests[in.h] = db.help_requests[in.h]]_vars

\* The help request row hr is open with no resolver, resolution time or
\* note, or resolved with all three.
HelpRowConsistent(hr) ==
  /\ hr.status \in {"open", "resolved"}
  /\ (hr.status = "resolved") <=> (hr.resolved_by # NULL)
  /\ (hr.status = "resolved") <=> (hr.resolved_at # NULL)
  /\ (hr.status = "resolved") <=> (hr.resolution_note # NULL)

\* C33 (SpecHelp): under every step, a help request that is stored stays
\* stored, a new one starts open, a resolved one stays resolved, an open
\* one becomes resolved only by a successful resolve_help_request on it,
\* and resolver, resolution time and note are present exactly when the
\* status is resolved.
C33_HelpStatusMonotone ==
  [][/\ DOMAIN db.help_requests \subseteq DOMAIN db'.help_requests
     /\ \A h \in DOMAIN db'.help_requests :
           /\ HelpRowConsistent(db'.help_requests[h])
           /\ h \notin DOMAIN db.help_requests =>
                 db'.help_requests[h].status = "open"
           /\ h \in DOMAIN db.help_requests =>
                 /\ db.help_requests[h].status = "resolved" =>
                       db'.help_requests[h].status = "resolved"
                 /\ db'.help_requests[h].status # db.help_requests[h].status =>
                       /\ ret' = [op |-> "resolve_help_request", ok |-> TRUE]
                       /\ \E in \in ResolveInputs : in.h = h /\ ResolveStep(in)
     /\ disk'.help_requests = db'.help_requests]_vars

\* C33 witness: a resolve_help_request has just succeeded; help request 1
\* is resolved with resolver, time and note, and help request 2 is open
\* with no resolution data.
C33_Witness ==
  /\ ret = [op |-> "resolve_help_request", ok |-> TRUE]
  /\ Len(db.help_requests) = 2
  /\ db.help_requests[1].status = "resolved"
  /\ db.help_requests[1].resolved_by = Some(3)
  /\ db.help_requests[1].resolution_note = Some("second")
  /\ db.help_requests[2].status = "open"
  /\ db.help_requests[2].resolved_by = NULL
  /\ db.help_requests[2].resolved_at = NULL
  /\ db.help_requests[2].resolution_note = NULL
  /\ HelpRowConsistent(db.help_requests[1])

\* The role of the stored user reference ref (NULL or <<id>>) is admin or
\* quality_manager.
ManagerRef(d, ref) ==
  /\ ref # NULL
  /\ d.users[ref[1]].role \in {"admin", "quality_manager"}

\* C17 (SpecApp): every resolved help request was resolved by an admin or
\* a quality manager, every stored extension was made by one, and a step
\* that changes a request's assistant, or changes its primary technician
\* other than by a technician claiming an unassigned request, is the
\* quality-control page's "apply" or the view page's "assign" run by an
\* admin or a quality manager.
C17_RemediationByManagers ==
  [][/\ \A h \in DOMAIN db'.help_requests :
           db'.help_requests[h].status = "resolved" =>
              ManagerRef(db', db'.help_requests[h].resolved_by)
     /\ \A r \in DOMAIN db'.requests :
           ExtFields(db'.requests[r]) # ExtFields(NewRequest(0, CostNone, 0)) =>
              ManagerRef(db', db'.requests[r].extended_by)
     /\ \A r \in DOMAIN db.requests :
           \/ db'.requests[r].assist_to # db.requests[r].assist_to
           \/ /\ db'.requests[r].assigned_to # db.requests[r].assigned_to
              /\ db.requests[r].assigned_to # NULL
           => \E u \in Sessions :
                 /\ db.users[u].role \in {"admin", "quality_manager"}
                 /\ \/ \E h \in HelpIds, reassign \in BOOLEAN, sid \in DOMAIN db.users :
                          PageQCApply(u, h, reassign, sid)
                    \/ \E sid \in DOMAIN db.users : PageViewAssign(u, r, sid)]_vars

\* C17 witness: a technician's help request has just been closed by the
\* quality manager.
C17_Witness ==
  /\ ret = [op |-> "resolve_help_request", ok |-> TRUE]
  /\ \E h \in DOMAIN db.help_requests :
        /\ db.help_requests[h].status = "resolved"
        /\ db.help_requests[h].resolved_by = Some(3)
        /\ db.users[db.help_requests[h].requested_by].role = "specialist"

---------------------------------------------------------------------------
(* Claims about taking a request, checked under SpecClaim *)

\* C18 as stated: the write of a claim takes effect only on a request that
\* has, at that moment, no assigned technician and a status other than
\* completed; otherwise it changes nothing.
C18_ClaimNeverOverwrites ==
  [][\A p \in Threads :
        thread[p].pc = "take" /\ thread'[p].pc = "idle" =>
           \/ /\ db.requests[thread[p].rid].assigned_to = NULL
              /\ db.requests[thread[p].rid].status # "completed"
           \/ db'.requests = db.requests]_vars

\* C18 amended: a claim is started only by a technician on a request that
\* the page has just read as unassigned and not completed; its write is
\* assign(request, self), which succeeds and sets the primary technician
\* to the claimant whatever the assignment and the status are by then, so
\* of two concurrent claims the later write decides.
C18_ClaimLastWriteWins ==
  [][\A p \in Threads :
        /\ thread[p].pc = "idle" /\ thread'[p].pc = "take" =>
              /\ db.users[thread'[p].user].role = "specialist"
              /\ db.requests[thread'[p].rid].assigned_to = NULL
              /\ db.requests[thread'[p].rid].status # "completed"
              /\ db' = db /\ disk' = disk
        /\ thread[p].pc = "take" /\ thread'[p].pc = "idle" =>
              /\ ret' = [op |-> "assign_request", ok |-> TRUE]
              /\ db' = [db EXCEPT !.requests[thread[p].rid].assigned_to =
                                     Some(thread[p].user)]
              /\ disk' = db']_vars

\* C18 witness: two technicians claimed the same request, each having read
\* it as unassigned; both writes succeeded and the request is assigned to
\* the one who wrote last.
C18_Witness ==
  \E p, q \in Threads :
     /\ p # q
     /\ thread[p].result = "ok" /\ thread[q].result = "ok"
     /\ thread[p].rid = thread[q].rid
     /\ thread[p].user # thread[q].user
     /\ thread[p].pc = "idle" /\ thread[q].pc = "idle"
     /\ db.requests[thread[p].rid].assigned_to = Some(thread[q].user)

---------------------------------------------------------------------------
(* Claims about assignment, checked under SpecAssign *)

\* C19: in every state and for every input, assign_request on an existing
\* request and an existing user succeeds and leaves the tables as they
\* were except that the request's primary technician is the given user,
\* whatever the earlier assignment and the status; reassign_master returns
\* and leaves exactly what assign_request does; set_assistant_master does
\* the same for the assistant and leaves the primary technician alone.
C19_AssignFrame ==
  \A in \in AssignInputs :
     LET a == assign_request(db, disk, in.r, in.u)
         m == reassign_master(db, disk, in.r, in.u)
         s == set_assistant_master(db, disk, in.r, in.u)
     IN /\ m = a
        /\ RequestExists(db, in.r) /\ UserExists(db, in.u) =>
              /\ a.ret.ok
              /\ a.db = [db EXCEPT !.requests[in.r].assigned_to = Some(in.u)]
              /\ a.disk = a.db
              /\ s.ret.ok
              /\ s.db = [db EXCEPT !.requests[in.r].assist_to = Some(in.u)]
              /\ s.disk = s.db

\* C19 witness: reassign_master has just given a completed request to
\* user 3, and the change is committed.
C19_Witness ==
  /\ ret = [op |-> "reassign_master", ok |-> TRUE]
  /\ \E r \in DOMAIN db.requests :
        /\ db.requests[r].status = "completed"
        /\ db.requests[r].assigned_to = Some(3)
        /\ disk.requests[r].assigned_to = Some(3)
        /\ Len(HistoryOf(db, r)) = 2

---------------------------------------------------------------------------
(* Claims about update_request, checked under SpecUpdate *)

\* This step is the call update_request(in.r, in.upd).
UpdateStep(in) ==
  LET res == update_request(db, disk, in.r, in.upd)
  IN /\ Called("update_request")
     /\ db' = res.db /\ disk' = res.disk /\ ret'.ok = res.ret.ok

\* The columns of a request that are not in the allowed list.
OtherFields(r) ==
  <<r.request_number, r.created_date, r.status, r.completed_date,
    r.assigned_to, r.assist_to, ExtFields(r)>>

\* C20: update_request(r, update_data) sets the allowed columns whose keys
\* are in update_data and nothing else: a key that is not allowed (status)
\* is ignored, an allowed column whose key is absent keeps its value, the
\* status, completed_date, request number, primary and assistant
\* technician and the five extension fields of the request, every other
\* request, the history and the other tables are unchanged.  Under every
\* step of every operation each stored request keeps its request number.
C20_UpdateFrame ==
  [][/\ \A r \in DOMAIN db.requests :
           /\ r \in DOMAIN db'.requests
           /\ db'.requests[r].request_number = db.requests[r].request_number
     /\ \A r \in DOMAIN disk.requests :
           /\ r \in DOMAIN disk'.requests
           /\ disk'.requests[r].request_number = disk.requests[r].request_number
     /\ \A in \in UpdateInputs :
           UpdateStep(in) =>
              /\ DOMAIN db'.requests = DOMAIN db.requests
              /\ db'.history = db.history
              /\ db'.users = db.users
              /\ db'.help_requests = db.help_requests
              /\ db'.comments = db.comments
              /\ \A q \in DOMAIN db.requests :
                    /\ OtherFields(db'.requests[q]) = OtherFields(db.requests[q])
                    /\ db'.requests[q].estimated_cost =
                          IF q = in.r /\ in.upd.has_cost
                          THEN in.upd.cost ELSE db.requests[q].estimated_cost
                    /\ db'.requests[q].deadline =
                          IF q = in.r /\ in.upd.has_deadline
                          THEN in.upd.deadline ELSE db.requests[q].deadline]_vars

\* C20 witness: update_request with the keys estimated_cost, deadline and
\* status has just succeeded on an open request: the two allowed columns
\* hold the new values and the status is still open.
C20_Witness ==
  /\ ret = [op |-> "update_request", ok |-> TRUE]
  /\ \E r \in DOMAIN db.requests :
        /\ db.requests[r].estimated_cost = 700
        /\ db.requests[r].deadline = Ts(2 * DaySeconds)
        /\ db.requests[r].status = "open"
        /\ disk.requests[r] = db.requests[r]
        /\ Len(HistoryOf(db, r)) = 1

---------------------------------------------------------------------------
(* Claims about status changes, checked under SpecStatus *)

\* C21: in every state, update_request_status with a request id that is
\* not stored returns failure and leaves the requests, the history and
\* every other table, seen and committed, exactly as they were.
C21_UnknownRequestFails ==
  \A in \in StatusInputs :
     ~RequestExists(db, in.r) =>
        LET res == update_request_status(db, disk, in.r, in.s, in.by, now)
        IN /\ ~res.ret.ok
           /\ res.db = db
           /\ res.disk = disk

\* C21 witness: a call of update_request_status has just failed while a
\* request is stored; the callers of SpecStatus are stored users, so the
\* id it was given is the one that is not stored.
C21_Witness ==
  /\ ret = [op |-> "update_request_status", ok |-> FALSE]
  /\ Len(db.requests) >= 1
  /\ Len(db.history) = Len(db.requests)

\* The admin, and the technician the request is assigned to.
MayChangeStatus(by, r) == db.users[by].role = "admin" \/ r.assigned_to = Some(by)

\* C22: in every state, for every stored request, whatever its status s,
\* and every status t, update_request_status to t by the admin or by the
\* assigned technician succeeds and leaves the request in status t.
C22_AnyTransition ==
  \A in \in StatusInputs :
     RequestExists(db, in.r) /\ MayChangeStatus(in.by, db.requests[in.r]) =>
        LET res == update_request_status(db, disk, in.r, in.s, in.by, now)
        IN /\ res.ret.ok
           /\ res.db.requests[in.r].status = in.s
           /\ res.disk = res.db

\* C22 witness: a request that was completed has been reopened by its
\* assigned technician.
C22_Witness ==
  /\ ret = [op |-> "update_request_status", ok |-> TRUE]
  /\ \E r \in DOMAIN db.requests :
        LET h == HistoryOf(db, r)
        IN /\ db.requests[r].status = "open"
           /\ db.requests[r].assigned_to = Some(2)
           /\ h[Len(h)] = [request_id |-> r, old_status |-> Some("completed"),
                           new_status |-> "open", changed_by |-> Some(2)]

---------------------------------------------------------------------------
(* Claims about the stored status values, checked under SpecApp *)

---------------------------------------------------------------------------
(* Claims about interleaved status changes, checked under SpecSetStatus *)

\* C24: whenever no call is in progress, every request's status is the
\* new status of its most recent history row, every call that returned
\* success has its history row, and completed_date is set exactly when the
\* status is completed.
C24_LastWriteConsistent ==
  Quiescent =>
    \A r \in DOMAIN db.requests :
       LET h == HistoryOf(db, r)
       IN /\ Len(h) = 1 + okStatus[r]
          /\ db.requests[r].status = h[Len(h)].new_status
          /\ (db.requests[r].completed_date # NULL) <=>
                (db.requests[r].status = "completed")

\* C32: also when update_request_status calls of different script threads
\* interleave, every history row after a request's first has as old status
\* the new status of the row stored immediately before it for that request.
C32_InterleavedHistoryChain ==
  \A r \in DOMAIN db.requests :
     LET h == HistoryOf(db, r)
     IN \A i \in 2..Len(h) : h[i].old_status = Some(h[i-1].new_status)

---------------------------------------------------------------------------
(* Claims about the logs, checked under SpecUpdate *)

\* The sequence a is an initial part of the sequence b.
IsPrefix(a, b) == Len(a) <= Len(b) /\ \A i \in DOMAIN a : b[i] = a[i]

\* C25: under every step of every operation the status history and the
\* comments, as the connection sees them and as committed, keep every row
\* they had, unchanged and in place; rows are only added at the end, one
\* by each successful add_comment and update_request_status.  So the rows
\* of each request in a later state extend those of an earlier state.
C25_LogsAppendOnly ==
  [][/\ IsPrefix(db.history, db'.history)
     /\ IsPrefix(db.comments, db'.comments)
     /\ IsPrefix(disk.history, disk'.history)
     /\ IsPrefix(disk.comments, disk'.comments)
     /\ \A r \in DOMAIN db.requests :
           IsPrefix(HistoryOf(db, r), HistoryOf(db', r))
     /\ Called("add_comment") /\ ret'.ok =>
           Len(db'.comments) = Len(db.comments) + 1
     /\ Called("update_request_status") /\ ret'.ok =>
           Len(db'.history) = Len(db.history) + 1]_vars

\* C25 witness: a request has its initial history row and the row of a
\* later status change, and a comment is stored.
C25_Witness ==
  /\ Len(db.comments) = 1
  /\ disk.comments = db.comments
  /\ \E r \in DOMAIN db.requests :
        /\ Len(HistoryOf(db, r)) = 2
        /\ HistoryOf(db, r)[1].old_status = NULL
        /\ db.comments[1].request_id = r

---------------------------------------------------------------------------
(* Claims about creation and the statistics, checked under SpecStats *)

\* This step is the call add_request with the estimated cost given.
AddStep(cost) ==
  LET res == add_request(db, disk, cost, now)
  IN /\ Called("add_request")
     /\ db' = res.db /\ disk' = res.disk /\ ret'.ok = res.ret.ok

C30_StatisticsCountCreated ==
  get_statistics(db, now, period_days).total_requests >= Len(db.requests)

---------------------------------------------------------------------------
(* Claims about the planned deadline, checked under SpecUpdate *)

\* C27: the planned deadline of a stored request changes, on the
\* connection or on disk, only in a step that is a successful
\* update_request on that request whose update_data holds the key
\* deadline; update_request_status, assign_request, set_assistant_master,
\* reassign_master, extend_deadline, create_help_request,
\* resolve_help_request and add_comment leave it as it was.
C27_PlannedDeadlineKept ==
  [][/\ \A r \in DOMAIN db.requests :
           db'.requests[r].deadline # db.requests[r].deadline =>
              /\ ret' = [op |-> "update_request", ok |-> TRUE]
              /\ \E in \in UpdateInputs :
                    UpdateStep(in) /\ in.r = r /\ in.upd.has_deadline
     /\ \A r \in DOMAIN disk.requests :
           disk'.requests[r].deadline # disk.requests[r].deadline =>
              ret' = [op |-> "update_request", ok |-> TRUE]]_vars

\* C27 witness: a request created with the default deadline has been
\* completed and its deadline extended, and still holds the planned
\* deadline stamped at creation.
C27_Witness ==
  /\ ret = [op |-> "extend_deadline", ok |-> TRUE]
  /\ \E r \in DOMAIN db.requests :
        /\ db.requests[r].status = "completed"
        /\ db.requests[r].deadline_extended_to = Ts(5 * DaySeconds)
        /\ db.requests[r].deadline = Ts(default_deadline_days * DaySeconds)

---------------------------------------------------------------------------
(* Claims about the returned value, checked under SpecUpdate *)

\* C34: in every state, for every request id, help request id, user id and
\* update_data, update_request, assign_request, set_assistant_master,
\* extend_deadline and resolve_help_request return success exactly when
\* the target row is stored and the write is accepted (the user written
\* into it is stored); on an id that is not stored each returns failure,
\* also update_request with no key of the allowed list.
C34_SuccessIffTargetExists ==
  /\ \A r \in RequestIds, upd \in UpdateDatas :
        update_request(db, disk, r, upd).ret.ok <=> RequestExists(db, r)
  /\ \A r \in RequestIds, u \in {2, 3, NoSuchUser} :
        LET stored == RequestExists(db, r) /\ UserExists(db, u)
        IN /\ assign_request(db, disk, r, u).ret.ok <=> stored
           /\ set_assistant_master(db, disk, r, u).ret.ok <=> stored
           /\ extend_deadline(db, disk, r, Ts(5 * DaySeconds), "parts",
                              "agreed", u, now).ret.ok <=> stored
  /\ \A h \in HelpIds, u \in {1, 3, NoSuchUser} :
        resolve_help_request(db, disk, h, u, "done", now).ret.ok
           <=> (h \in DOMAIN db.help_requests /\ UserExists(db, u))

---------------------------------------------------------------------------
(* Claims about failed calls, checked under SpecFailure *)

\* C28: every call of a Database method that returns failure leaves the
\* tables, as every later operation sees them, exactly as they were before
\* the call.
C28_FailureLeavesStore ==
  [][budget' = budget - 1 /\ ~ret'.ok => db' = db]_vars

---------------------------------------------------------------------------
(* Claims about get_requests, checked under SpecList *)

\* The text s occurs in the text.
Contains(text, s) ==
  \E i \in 0..(Len(text) - Len(s)) : SubSeq(text, i + 1, i + Len(s)) = s

ContainsColumn(column, s) == column # NULL /\ Contains(column[1], s)

\* C29: in every state and for every choice of filters, get_requests
\* returns exactly the stored requests whose status equals the status
\* filter, whose primary technician equals the assignee filter, whose
\* number, customer name or customer phone contains the search text, and
\* whose creation date lies between date_from and date_to inclusive, each
\* filter that is not given counting as satisfied.
C29_ListFilters ==
  \A f \in ListFilters :
     get_requests(db, f) =
        {i \in DOMAIN db.requests :
           LET r == db.requests[i]
           IN /\ f.status # NULL => r.status = f.status[1]
              /\ f.assigned_to # NULL => r.assigned_to = f.assigned_to
              /\ f.search # NULL =>
                    \/ Contains(RequestNumberText(r.request_number), f.search[1])
                    \/ ContainsColumn(r.customer_name, f.search[1])
                    \/ ContainsColumn(r.customer_phone, f.search[1])
              /\ f.date_from # NULL => r.created_date \div DaySeconds >= f.date_from[1]
              /\ f.date_to # NULL => r.created_date \div DaySeconds <= f.date_to[1]}

---------------------------------------------------------------------------
(* Claims about completed_date, checked under SpecCompleted *)

\* This step is the call update_request_status(in.r, in.s, in.by).
StatusStep(in) ==
  LET res == update_request_status(db, disk, in.r, in.s, in.by, now)
  IN /\ Called("update_request_status")
     /\ db' = res.db /\ disk' = res.disk /\ ret'.ok = res.ret.ok

\* C31: the completed_date of a request is the time of the most recent
\* successful update_request_status to completed on it.  A successful call
\* to completed stamps the time of the call, also on an already completed
\* request; a successful call to another status clears it; every other
\* step, a failed call included, leaves it as it was.
C31_CompletedDateIsLastCompletion ==
  [][\A r \in DOMAIN db.requests :
        LET successful == {in \in CompletedInputs :
                             in.r = r /\ StatusStep(in) /\ ret'.ok}
        IN /\ \A in \in successful :
                 db'.requests[r].completed_date =
                    IF in.s = "completed" THEN Some(now) ELSE NULL
           /\ successful = {} =>
                 db'.requests[r].completed_date = db.requests[r].completed_date]_vars
---------------------------------------------------------------------------
(* Claims about the users, checked under SpecUsers *)

\* This step is the call add_user(in).
AddUserStep(in) ==
  LET res == add_user(db, disk, in.username, in.password, in.role)
  IN /\ Called("add_user")
     /\ db' = res.db /\ disk' = res.disk /\ ret'.ok = res.ret.ok

\* No two users of the tables d have the same username.
UniqueUsernames(d) ==
  \A u, v \in DOMAIN d.users :
     d.users[u].username = d.users[v].username => u = v

\* C35: under every step the usernames stay unique, as the connection sees
\* them and as committed; every stored user keeps its row (username,
\* password hash, role, active flag); and add_user with a username that is
\* stored returns failure and adds no user.
C35_UsernamesUnique ==
  [][/\ UniqueUsernames(db') /\ UniqueUsernames(disk')
     /\ \A u \in DOMAIN db.users :
           u \in DOMAIN db'.users /\ db'.users[u] = db.users[u]
     /\ \A u \in DOMAIN disk.users :
           u \in DOMAIN disk'.users /\ disk'.users[u] = disk.users[u]
     /\ \A in \in UserInputs :
           /\ AddUserStep(in)
           /\ \E u \in DOMAIN db.users : db.users[u].username = in.username
           => ~ret'.ok /\ db'.users = db.users]_vars

\* C35 witness: petrov was added as a specialist, and an add_user has just
\* failed; the stored users are the three seeded ones and petrov, each
\* with the password hash and role it was created with.
C35_Witness ==
  /\ ret = [op |-> "add_user", ok |-> FALSE]
  /\ Len(db.users) = 4
  /\ SubSeq(db.users, 1, 3) = SeedUsers
  /\ db.users[4] = [username |-> "petrov", password |-> _sha256("other"),
                    role |-> "specialist", is_active |-> 1]
  /\ disk.users = db.users
---------------------------------------------------------------------------
(* Claims about the session and the navigation, checked under SpecNav *)

\* The roles for which the page function of page p goes past its guard.
PageRoles(p) ==
  IF p = "users" THEN {"admin"}
  ELSE IF p = "quality_control" THEN {"admin", "quality_manager"}
  ELSE IF p \in {"new_request", "edit_request"} THEN {"admin", "specialist"}
  ELSE Roles

\* The pages whose buttons call a writing Database method.
WritingPages ==
  {"new_request", "view_request", "edit_request", "quality_control", "users"}

\* C36: under every run of the script, a session with no logged-in user
\* renders the login page only and writes nothing, whatever the run leaves
\* it is on page login; a run that renders the quality-control page, the
\* users page, the new-request page or the edit page does so for a user
\* whose stored role is admin or quality_manager, admin, and admin or
\* specialist respectively; and every call of a writing Database method is
\* made from one of the writing pages by a logged-in user whose stored
\* role that page admits.
C36_NavigationGuards ==
  [][/\ session.user = 0 =>
           /\ db' = db /\ disk' = disk
           /\ session'.shown \in {"login", "rerun", "none"}
           /\ session'.shown = "rerun" => session'.user # 0
     /\ session'.user = 0 =>
           /\ session'.page = "login"
           /\ session'.shown \in {"login", "rerun", "none"}
     /\ session'.shown \in WritingPages =>
           /\ session'.user \in DOMAIN db'.users
           /\ db'.users[session'.user].role \in PageRoles(session'.shown)
     /\ budget' = budget - 1 =>
           /\ session.user \in DOMAIN db.users
           /\ session.page \in WritingPages
           /\ db.users[session.user].role \in PageRoles(session.page)
           /\ ret'.op = "add_user" => session.page = "users"
           /\ ret'.op \in {"resolve_help_request", "extend_deadline"} =>
                 session.page = "quality_control"
           /\ ret'.op = "add_request" => session.page = "new_request"
           /\ ret'.op = "update_request" => session.page = "edit_request"]_vars

\* C36 witness: the quality manager closed a help request on the
\* quality-control page and logged out; the session has no user and the
\* login page is rendered.
C36_Witness ==
  /\ session.user = 0 /\ session.page = "login" /\ session.shown = "login"
  /\ ret = [op |-> "resolve_help_request", ok |-> TRUE]
  /\ Len(db.help_requests) = 1
  /\ db.help_requests[1].resolved_by = Some(3)
  /\ db.users[3].role = "quality_manager"

====
